---- MODULE Spec2Model ----
(***************************************************************************)
(* A model of five parts of the agent framework:                           *)
(*   - errors/circuit_breaker.py : CircuitBreaker        (SpecBreaker)     *)
(*   - workflows/base.py, workflows/react/workflow.py    (SpecWorkflow)    *)
(*   - context/compaction/*.py, context/manager.py       (SpecCompact)     *)
(*   - tokens/tracker.py : UsageTracker                  (SpecTracker)     *)
(*   - agent/core.py : Agent.run and its post-run hook   (SpecAgent)       *)
(* Each part has its own specification; the variables of the other parts   *)
(* are parked at a fixed idle value and left unchanged.                    *)
(***************************************************************************)
EXTENDS Integers, Sequences, FiniteSets, TLC

VARIABLES
  \* ---- CircuitBreaker (errors/circuit_breaker.py) ----
  failure_threshold,    \* config.failure_threshold
  success_threshold,    \* config.success_threshold
  timeout,              \* config.timeout (seconds)
  window_size,          \* config.window_size (seconds)
  now,                  \* time.time(), in whole seconds
  cbState,              \* self._state
  failures,             \* self._failures: timestamps, oldest first
  last_failure_time,    \* self._last_failure_time (NoTime for None)
  half_open_successes,  \* self._half_open_successes
  stats,                \* self._stats
  cbOp,                 \* the call just made and what it returned
  \* history variables of the breaker (not read by any action's guard)
  failureLog,           \* every failure time recorded since the window was last emptied
  openedAt,             \* time of the last transition to open
  lastFailAt,           \* time of the most recent record_failure
  halfOpenLog,          \* record_success calls since half-open was last entered
  halfOpenGrants,       \* requests let through a half-open breaker since the last
                        \* recorded outcome, counted up to MaxProbes
  \* ---- Workflow.run / ReActWorkflow._execute (workflows/) ----
  max_iterations,       \* ReActConfig.max_iterations
  enable_hooks,         \* WorkflowConfig.enable_hooks
  timeout_seconds,      \* WorkflowConfig.timeout_seconds (0 for None)
  auto_compact_in_workflow, \* ReActConfig.auto_compact_in_workflow
  expose_reasoning,     \* ReActConfig.expose_reasoning
  max_consecutive_thoughts, \* ReActConfig.max_consecutive_thoughts
  pc,                   \* position of the run
  iteration,            \* _execute's local `iteration`
  wstate,               \* the WorkflowState of the run
  rstate,               \* the ReActState (state.context)
  resp,                 \* the AgentResult being processed
  idx,                  \* position in the tool calls / tool results of resp
  step,                 \* _execute's local WorkflowStep record
  exc,                  \* the exception in flight ("none" if none)
  result,               \* what run() returned (NoResult until it returns)
  \* history variables of the run
  agentRuns,            \* the responses of the agent runs made, in order
  hookLog,              \* the hooks called, in order
  hookRaised,           \* the hooks that raised
  timedOut,             \* the wall-clock timeout expired
  ctx_tokens,           \* the token count _maybe_compact last read (0 before)
  compactRuns,          \* the calls of agent.compact() made by _maybe_compact
  \* ---- ContextManager and the compaction strategies (context/) ----
  strategy,             \* CompactionConfig.strategy
  target_tokens,        \* CompactionConfig.target_tokens
  preserve_recent_turns, \* CompactionConfig.preserve_recent_turns
  preserve_system_prompt, \* CompactionConfig.preserve_system_prompt
  messages,             \* self._history.messages
  system_prompt,        \* self._history.system_prompt, by token count and length
  compaction_history,   \* self._compaction_history
  nextCallId,           \* the next unused tool-call id
  added,                \* the messages handed to add_messages so far
  cmOp,                 \* the call just made, or the compact call in progress
  \* ---- UsageTracker (tokens/tracker.py) ----
  usage_records,        \* self._records
  usage_totals,         \* self._totals
  utOp,                 \* the call just made
  \* ---- Agent (agent/core.py) ----
  track_context,        \* AgentConfig.track_context
  auto_compact,         \* AgentConfig.auto_compact
  trigger_threshold_tokens, \* CompactionConfig.trigger_threshold_tokens
  agPc,                 \* position of Agent.run
  run_result,           \* the result of the underlying run (NoRun before one)
  runs,                 \* history: the calls of Agent.run made so far
  postRun,              \* history: the post-run steps of the current run, in order
  stream,               \* run_stream: the history passed and the chunks not yet read
  \* ---- MCPClientManager (mcp/client.py, mcp/lifecycle.py) ----
  mcp_configs,          \* self._configs, a server's name being its position
  mcp_servers,          \* the names in self._lifecycle._servers
  mcp_states,           \* self._lifecycle._states
  mcp_errors,           \* the names in self._lifecycle._errors
  mcUse                 \* position of the caller's use of the manager

cbVars == <<failure_threshold, success_threshold, timeout, window_size, now,
            cbState, failures, last_failure_time, half_open_successes, stats,
            cbOp, failureLog, openedAt, lastFailAt, halfOpenLog,
            halfOpenGrants>>

wfConfig == <<max_iterations, enable_hooks, timeout_seconds,
              auto_compact_in_workflow, expose_reasoning,
              max_consecutive_thoughts>>

wfVars == <<wfConfig, pc, iteration, wstate, rstate, resp, idx, step, exc, result,
            agentRuns, hookLog, hookRaised, timedOut, ctx_tokens, compactRuns>>

cmConfig == <<strategy, target_tokens, preserve_recent_turns,
              preserve_system_prompt>>

cmVars == <<cmConfig, messages, system_prompt, compaction_history, nextCallId,
            added, cmOp>>

utVars == <<usage_records, usage_totals, utOp>>

agConfig == <<track_context, auto_compact, trigger_threshold_tokens>>

agVars == <<agConfig, agPc, run_result, runs, postRun, stream>>

mcVars == <<mcp_configs, mcp_servers, mcp_states, mcp_errors, mcUse>>

vars == <<cbVars, wfVars, cmVars, utVars, agVars, mcVars>>

\* what the actions of one part leave alone: the variables of the other parts
\* (the agent owns a tracker and a context manager)
cbOthers == <<wfVars, cmVars, utVars, agVars, mcVars>>
wfOthers == <<cbVars, cmVars, utVars, agVars, mcVars>>
cmOthers == <<cbVars, wfVars, utVars, agVars, mcVars>>
utOthers == <<cbVars, wfVars, cmVars, agVars, mcVars>>
agOthers == <<cbVars, wfVars, mcVars>>
mcOthers == <<cbVars, wfVars, cmVars, utVars, agVars>>

----------------------------------------------------------------------------
(* Bounds of the model *)
MaxTime == 3
MaxCalls == 4
MaxThreshold == 2
MaxTimeout == 2
MaxWindow == 2
MaxProbes == 2

(* None *)
NoTime == -1

----------------------------------------------------------------------------
(*                           CircuitBreaker                                *)

CircuitState == {"closed", "open", "half_open"}

CircuitStats == [total_calls |-> 0, successful_calls |-> 0, failed_calls |-> 0,
                 rejected_calls |-> 0, state_changes |-> 0]

\* number of entries of a timestamp sequence that lie in the window ending at t
InWindow(log, t, w) == Cardinality({i \in DOMAIN log : log[i] >= t - w})

\* _should_attempt_reset
ShouldAttemptResetStrict(lft, t, to) ==
  IF lft = NoTime THEN TRUE ELSE t - lft > to

ShouldAttemptReset(lft, t, to) ==
  IF lft = NoTime THEN TRUE ELSE t - lft >= to

\* _transition_to: the half-open counter after a transition to new_state
TransitionCounterKeep(new_state, counter) == counter

TransitionCounter(new_state, counter) ==
  IF new_state = "half_open" THEN 0 ELSE counter

\* _clean_old_failures: pop from the left while the oldest is before the window
RECURSIVE CleanOldFailures(_, _, _)
CleanOldFailuresNone(fs, t, w) == fs

CleanOldFailures(fs, t, w) ==
  IF fs # <<>> /\ Head(fs) < t - w
    THEN CleanOldFailures(Tail(fs), t, w)
    ELSE fs

\* record_failure's test in the closed state
Trips(count, threshold) == count >= threshold

\* a record_failure that trips the breaker again while it is open
FailureOpensAlsoWhenOpen(state, count, threshold) ==
  \/ state \in {"half_open", "open"}
  \/ state = "closed" /\ Trips(count, threshold)

\* record_failure: whether this failure opens the breaker
FailureOpensAtThreshold(state, count, threshold) ==
  state \in {"closed", "half_open"} /\ Trips(count, threshold)

FailureOpens(state, count, threshold) ==
  \/ state = "half_open"
  \/ state = "closed" /\ Trips(count, threshold)

\* get_time_until_retry
TimeUntilRetryFromZero(state, lft, t, to) ==
  IF state # "open" \/ lft = NoTime THEN 0
  ELSE IF to - t > 0 THEN to - t ELSE 0

TimeUntilRetry(state, lft, t, to) ==
  IF state # "open" \/ lft = NoTime THEN 0
  ELSE IF to - (t - lft) > 0 THEN to - (t - lft) ELSE 0

\* record_success's test in the half-open state
Closes(count, threshold) == count >= threshold

\* a `state` property that does not look at the state it leaves
StateAfterReadFromAny ==
  IF ShouldAttemptReset(last_failure_time, now, timeout)
    THEN "half_open" ELSE cbState

\* the `state` property: an open breaker whose timeout has passed becomes half-open
StateAfterRead ==
  IF cbState = "open" /\ ShouldAttemptReset(last_failure_time, now, timeout)
    THEN "half_open" ELSE cbState

\* the requests let through after a read of `state` that grants or not
GrantsAfter(granted) ==
  LET s == StateAfterRead
      base == IF s # cbState THEN 0 ELSE halfOpenGrants
  IN IF granted /\ s = "half_open" /\ base < MaxProbes THEN base + 1 ELSE base

ReadStateEffect ==
  LET s == StateAfterRead IN
  /\ cbState' = s
  /\ half_open_successes' =
       IF s # cbState THEN TransitionCounter(s, half_open_successes)
                      ELSE half_open_successes
  /\ halfOpenLog' = IF s # cbState THEN 0 ELSE halfOpenLog
  /\ stats' = IF s # cbState
                THEN [stats EXCEPT !.state_changes = @ + 1] ELSE stats

\* CircuitBreaker.__init__, for every configuration of the bounded sets
BreakerInit ==
  /\ failure_threshold \in 1..MaxThreshold
  /\ success_threshold \in 1..MaxThreshold
  /\ timeout \in 0..MaxTimeout
  /\ window_size \in 1..MaxWindow
  /\ now = 0
  /\ cbState = "closed"
  /\ failures = <<>>
  /\ last_failure_time = NoTime
  /\ half_open_successes = 0
  /\ stats = CircuitStats
  /\ cbOp = [op |-> "init", ret |-> TRUE]
  /\ failureLog = <<>>
  /\ openedAt = NoTime
  /\ lastFailAt = NoTime
  /\ halfOpenLog = 0
  /\ halfOpenGrants = 0

cbConfig == <<failure_threshold, success_threshold, timeout, window_size>>

\* the clock advances by one second
Tick ==
  /\ now < MaxTime
  /\ now' = now + 1
  /\ cbOp' = [op |-> "tick", ret |-> TRUE]
  /\ UNCHANGED <<cbOthers, cbConfig, cbState, failures, last_failure_time,
                 half_open_successes, stats, failureLog, openedAt, lastFailAt,
                 halfOpenLog, halfOpenGrants>>

\* reading the `state` property
ReadState ==
  /\ ReadStateEffect
  /\ halfOpenGrants' = GrantsAfter(FALSE)
  /\ cbOp' = [op |-> "state", ret |-> TRUE]
  /\ UNCHANGED <<cbOthers, cbConfig, now, failures, last_failure_time, failureLog,
                 openedAt, lastFailAt>>

\* allow_request()
AllowRequest ==
  /\ ReadStateEffect
  /\ halfOpenGrants' = GrantsAfter(TRUE)
  /\ cbOp' = [op |-> "allow_request", ret |-> (StateAfterRead # "open")]
  /\ UNCHANGED <<cbOthers, cbConfig, now, failures, last_failure_time, failureLog,
                 openedAt, lastFailAt>>

\* __enter__ and __aenter__: ret is FALSE when CircuitBreakerOpenError is raised,
\* retry is the seconds until retry it carries
Enter ==
  /\ stats.total_calls + stats.rejected_calls < MaxCalls
  /\ LET s == StateAfterRead
         changed == IF s # cbState
                      THEN [stats EXCEPT !.state_changes = @ + 1] ELSE stats
     IN
     /\ cbState' = s
     /\ half_open_successes' =
          IF s # cbState THEN TransitionCounter(s, half_open_successes)
                         ELSE half_open_successes
     /\ halfOpenLog' = IF s # cbState THEN 0 ELSE halfOpenLog
     /\ halfOpenGrants' = GrantsAfter(TRUE)
     /\ stats' = IF s = "open"
                   THEN [changed EXCEPT !.rejected_calls = @ + 1] ELSE changed
     /\ cbOp' = [op |-> "enter", ret |-> (s # "open"),
                 retry |-> TimeUntilRetry(s, last_failure_time, now, timeout)]
  /\ UNCHANGED <<cbOthers, cbConfig, now, failures, last_failure_time, failureLog,
                 openedAt, lastFailAt>>

\* record_success()
RecordSuccess ==
  /\ stats.total_calls + stats.rejected_calls < MaxCalls
  /\ LET n == half_open_successes + 1
         closing == cbState = "half_open" /\ Closes(n, success_threshold)
     IN
     /\ half_open_successes' = IF cbState = "half_open" THEN n ELSE half_open_successes
     /\ halfOpenLog' = IF cbState = "half_open" THEN halfOpenLog + 1 ELSE halfOpenLog
     /\ halfOpenGrants' = 0
     /\ cbState' = IF closing THEN "closed" ELSE cbState
     /\ failures' = IF closing THEN <<>> ELSE failures
     /\ failureLog' = IF closing THEN <<>> ELSE failureLog
     /\ stats' = [stats EXCEPT !.total_calls = @ + 1,
                               !.successful_calls = @ + 1,
                               !.state_changes = IF closing THEN @ + 1 ELSE @]
  /\ cbOp' = [op |-> "record_success", ret |-> TRUE]
  /\ UNCHANGED <<cbOthers, cbConfig, now, last_failure_time, openedAt, lastFailAt>>

\* record_failure(exception)
RecordFailure ==
  /\ stats.total_calls + stats.rejected_calls < MaxCalls
  /\ LET appended == Append(failures, now)
         cleaned == CleanOldFailures(appended, now, window_size)
         opening == FailureOpens(cbState, Len(cleaned), failure_threshold)
     IN
     /\ failures' = IF cbState = "closed" THEN cleaned ELSE appended
     /\ failureLog' = Append(failureLog, now)
     /\ last_failure_time' = now
     /\ lastFailAt' = now
     /\ cbState' = IF opening THEN "open" ELSE cbState
     /\ openedAt' = IF opening THEN now ELSE openedAt
     /\ stats' = [stats EXCEPT !.total_calls = @ + 1,
                               !.failed_calls = @ + 1,
                               !.state_changes = IF opening THEN @ + 1 ELSE @]
  /\ halfOpenGrants' = 0
  /\ cbOp' = [op |-> "record_failure", ret |-> TRUE]
  /\ UNCHANGED <<cbOthers, cbConfig, now, half_open_successes, halfOpenLog>>

\* reset()
Reset ==
  /\ cbState' = "closed"
  /\ failures' = <<>>
  /\ failureLog' = <<>>
  /\ last_failure_time' = NoTime
  /\ half_open_successes' = 0
  /\ halfOpenGrants' = 0
  /\ cbOp' = [op |-> "reset", ret |-> TRUE]
  /\ UNCHANGED <<cbOthers, cbConfig, now, stats, openedAt, lastFailAt, halfOpenLog>>

NextBreaker ==
  \/ Tick
  \/ ReadState
  \/ AllowRequest
  \/ Enter
  \/ RecordSuccess
  \/ RecordFailure
  \/ Reset


----------------------------------------------------------------------------
(*                Workflow.run and ReActWorkflow._execute                  *)

(* Bounds of the model *)
MaxIter == 3
MaxTools == 1
IterTokens == 2
MaxThoughts == 2
\* scratchpad entries added through the methods of a ReActState on its own
MaxEntries == 5

(* ReActConfig defaults: max_consecutive_thoughts, compact_threshold_ratio (in
   hundredths) *)
DefaultMaxConsecutiveThoughts == 3
CompactThresholdPercent == 80

(* WorkflowConfig.timeout_seconds default *)
DefaultTimeoutSeconds == 300

\* what agent.run can do in one iteration: raise, or return new messages with
\* assistant text (or none), a final_answer tool call (or none) and `tools`
\* other tool calls together with their tool returns
RaisingResponse == [raises |-> TRUE, text |-> FALSE, final |-> FALSE, tools |-> 0]

Responses ==
  [raises : {FALSE}, text : BOOLEAN, final : BOOLEAN, tools : 0..MaxTools]
    \cup {RaisingResponse}

NoResponse == [raises |-> FALSE, text |-> FALSE, final |-> FALSE, tools |-> 0]

\* kinds of exception in flight
ExcKinds == {"none", "HookError", "AgentError", "WorkflowMaxIterationsError"}

\* WorkflowState()
InitialWorkflowState ==
  [current_step |-> 1, total_steps |-> 0, iteration_count |-> 0,
   is_complete |-> FALSE, is_failed |-> FALSE, steps |-> <<>>]

\* ReActState(task=prompt)
InitialReActState ==
  [scratchpad |-> <<>>, current_thought |-> FALSE, current_action |-> FALSE,
   current_observation |-> FALSE, is_terminated |-> FALSE,
   termination_reason |-> "none", final_answer |-> "none",
   iteration_token_counts |-> <<>>, total_tokens_used |-> 0,
   compaction_count |-> 0, consecutive_thought_count |-> 0]

NoStep ==
  [step_number |-> 0, input_data |-> "none", error |-> "none",
   completed |-> FALSE, added |-> FALSE]

NoResult ==
  [returned |-> FALSE, success |-> FALSE, output |-> "none", error |-> "none",
   termination_reason |-> "unknown", total_steps |-> 0, total_iterations |-> 0]

\* WorkflowResult.ok
ResultOk(output, ws, reason) ==
  [returned |-> TRUE, success |-> TRUE, output |-> output, error |-> "none",
   termination_reason |-> reason, total_steps |-> ws.total_steps,
   total_iterations |-> ws.iteration_count]

\* WorkflowResult.fail
ResultFail(error, ws, reason) ==
  [returned |-> TRUE, success |-> FALSE, output |-> "none", error |-> error,
   termination_reason |-> reason, total_steps |-> ws.total_steps,
   total_iterations |-> ws.iteration_count]

\* ScratchpadEntry
Entry(kind, final) == [entry_type |-> kind, is_final |-> final]

\* ReActState.add_thought
AddThought(rs) ==
  [rs EXCEPT !.scratchpad = Append(@, Entry("thought", FALSE)),
             !.current_thought = TRUE,
             !.consecutive_thought_count = @ + 1]

\* an add_action that leaves the count of thoughts alone
AddActionKeepingCount(rs) ==
  [rs EXCEPT !.scratchpad = Append(@, Entry("action", FALSE)),
             !.current_action = TRUE]

\* ReActState.add_action
AddAction(rs) ==
  [rs EXCEPT !.scratchpad = Append(@, Entry("action", FALSE)),
             !.current_action = TRUE,
             !.consecutive_thought_count = 0]

\* a state that records the text of the response with every observation
AddObservationWithThought(rs, final) ==
  [rs EXCEPT !.scratchpad = @ \o <<Entry("thought", FALSE),
                                   Entry("observation", final)>>,
             !.current_observation = TRUE]

\* ReActState.add_observation
AddObservation(rs, final) ==
  [rs EXCEPT !.scratchpad = Append(@, Entry("observation", final)),
             !.current_observation = TRUE]

\* WorkflowState.add_step
AddStep(ws, st) ==
  [ws EXCEPT !.steps = Append(@, st),
             !.total_steps = Len(ws.steps) + 1,
             !.current_step = Len(ws.steps) + 2]

\* detect_final_answer: a ToolCallPart named final_answer is among the new messages
DetectFinalAnswerNever(r) == FALSE

DetectFinalAnswer(r) == r.final

\* the loop condition of _execute
LoopContinuesPastAnswer(it, max_iter, terminated) == it < max_iter

LoopContinues(it, max_iter, terminated) == it < max_iter /\ ~terminated

\* the termination reason Workflow.run reports for an exception of _execute
FailReason(e) == "error"

\* a run that reports an expired timeout as any other error
TimeoutResultAsError(ws) == ResultFail("timeout", ws, "error")

\* Workflow.run, `except asyncio.TimeoutError`: the result
TimeoutResult(ws) == ResultFail("timeout", ws, "timeout")

\* a loop that forces an action only after more thoughts than the maximum
ForceActionWhenExceeded(count, max) == count > max

\* _execute: force_action
ForceAction(count, max) == count >= max

\* _execute and build_iteration_prompt: the instruction the prompt of
\* iteration `it` carries
IterationPrompt(it, force_action) ==
  IF it = 1 THEN "task"
  ELSE IF force_action THEN "force_action" ELSE "continue"

\* the token counts get_context_state can report: the last below the
\* compaction threshold and the first at or above it
ContextTokenCounts(trigger) ==
  {(CompactThresholdPercent * trigger) \div 100,
   (CompactThresholdPercent * trigger) \div 100 + 1}

\* a workflow that compacts whatever auto_compact_in_workflow says
WorkflowCompactsAlways(auto, tokens, trigger) ==
  100 * tokens >= CompactThresholdPercent * trigger

\* _maybe_compact: ctx.token_count >= compact_threshold_ratio * trigger
WorkflowCompacts(auto, tokens, trigger) ==
  auto /\ 100 * tokens >= CompactThresholdPercent * trigger

\* WorkflowHooks._call_hook behind a trigger_* method: nothing when hooks are
\* disabled; otherwise the callback runs and either returns or raises, and what
\* it raises propagates to the caller
HookStep(hook, okPc, excPc) ==
  IF ~enable_hooks
    THEN /\ pc' = okPc
         /\ UNCHANGED <<exc, hookLog, hookRaised>>
    ELSE /\ hookLog' = Append(hookLog, hook)
         /\ \E raises \in BOOLEAN :
              IF raises
                THEN /\ pc' = excPc
                     /\ exc' = "HookError"
                     /\ hookRaised' = hookRaised \cup {hook}
                ELSE /\ pc' = okPc
                     /\ UNCHANGED <<exc, hookRaised>>

\* the awaits of _execute at which the cancellation of asyncio.wait_for lands
ExecuteHookPcs ==
  {"h_iteration_start", "h_compaction", "h_step_start", "h_thought", "h_action",
   "h_observation", "h_step_complete", "h_step_error", "h_iteration_complete"}

SuspensionPoint ==
  \/ pc = "agent_run"
  \/ pc = "maybe_compact" /\ auto_compact_in_workflow
  \/ pc \in ExecuteHookPcs /\ enable_hooks

\* before run is called
RunNotStarted ==
  /\ pc = "start"
  /\ iteration = 0
  /\ wstate = InitialWorkflowState
  /\ rstate = InitialReActState
  /\ resp = NoResponse
  /\ idx = 0
  /\ step = NoStep
  /\ exc = "none"
  /\ result = NoResult
  /\ agentRuns = <<>>
  /\ hookLog = <<>>
  /\ hookRaised = {}
  /\ timedOut = FALSE
  /\ ctx_tokens = 0
  /\ compactRuns = 0

\* construction of the workflow, for every configuration of the bounded sets
\* and the default options of the ReAct loop
WorkflowInit ==
  /\ max_iterations \in 1..MaxIter
  /\ enable_hooks \in BOOLEAN
  /\ timeout_seconds \in {0, DefaultTimeoutSeconds}
  /\ auto_compact_in_workflow \in BOOLEAN
  /\ expose_reasoning = TRUE
  /\ max_consecutive_thoughts = DefaultMaxConsecutiveThoughts
  /\ RunNotStarted

\* construction of a workflow without hooks, for every value of the options
\* of the ReAct loop
ReActInit ==
  /\ max_iterations \in 1..MaxIter
  /\ enable_hooks = FALSE
  /\ timeout_seconds \in {0, DefaultTimeoutSeconds}
  /\ auto_compact_in_workflow \in BOOLEAN
  /\ expose_reasoning \in BOOLEAN
  /\ max_consecutive_thoughts \in 1..MaxThoughts
  /\ RunNotStarted

wfLocals == <<iteration, resp, idx, step>>
wfHistory == <<agentRuns, timedOut, ctx_tokens, compactRuns>>

\* Workflow.run: create the state
Run ==
  /\ pc = "start"
  /\ wstate' = InitialWorkflowState
  /\ rstate' = InitialReActState
  /\ pc' = "h_workflow_start"
  /\ UNCHANGED <<wfOthers, wfConfig, wfLocals, exc, result, wfHistory, hookLog, hookRaised>>

\* trigger_workflow_start (inside run's try, outside wait_for)
TriggerWorkflowStart ==
  /\ pc = "h_workflow_start"
  /\ HookStep("workflow_start", "loop", "run_except")
  /\ UNCHANGED <<wfOthers, wfConfig, wfLocals, wstate, rstate, result, wfHistory>>

\* the while test of _execute and the first two statements of its body
LoopTest ==
  /\ pc = "loop"
  /\ IF LoopContinues(iteration, max_iterations, rstate.is_terminated)
       THEN /\ iteration' = iteration + 1
            /\ wstate' = [wstate EXCEPT !.iteration_count = iteration + 1]
            /\ pc' = "h_iteration_start"
       ELSE /\ pc' = "after_loop"
            /\ UNCHANGED <<iteration, wstate>>
  /\ UNCHANGED <<wfOthers, wfConfig, rstate, resp, idx, step, exc, result, wfHistory,
                 hookLog, hookRaised>>

\* trigger_iteration_start
TriggerIterationStart ==
  /\ pc = "h_iteration_start"
  /\ HookStep("iteration_start", "maybe_compact", "run_except")
  /\ UNCHANGED <<wfOthers, wfConfig, wfLocals, wstate, rstate, result, wfHistory>>

\* _maybe_compact up to agent.compact(), then force_action, the iteration
\* prompt and the creation of the step record; the token count of the agent's
\* context is an input, read only when auto_compact_in_workflow is set
MaybeCompact ==
  /\ pc = "maybe_compact"
  /\ \E tokens \in ContextTokenCounts(trigger_threshold_tokens) :
       /\ ctx_tokens' = IF auto_compact_in_workflow THEN tokens ELSE ctx_tokens
       /\ IF WorkflowCompacts(auto_compact_in_workflow, tokens,
                              trigger_threshold_tokens)
            THEN /\ rstate' = [rstate EXCEPT !.compaction_count = @ + 1]
                 /\ compactRuns' = compactRuns + 1
                 /\ pc' = "h_compaction"
            ELSE /\ pc' = "h_step_start"
                 /\ UNCHANGED <<rstate, compactRuns>>
  /\ step' = [step_number |-> wstate.current_step,
              input_data |-> IterationPrompt(iteration,
                               ForceAction(rstate.consecutive_thought_count,
                                           max_consecutive_thoughts)),
              error |-> "none", completed |-> FALSE, added |-> FALSE]
  /\ UNCHANGED <<wfOthers, wfConfig, iteration, resp, idx, wstate, exc, result,
                 agentRuns, timedOut, hookLog, hookRaised>>

\* trigger_compaction
TriggerCompaction ==
  /\ pc = "h_compaction"
  /\ HookStep("compaction", "h_step_start", "run_except")
  /\ UNCHANGED <<wfOthers, wfConfig, wfLocals, wstate, rstate, result, wfHistory>>

\* trigger_step_start
TriggerStepStart ==
  /\ pc = "h_step_start"
  /\ HookStep("step_start", "agent_run", "run_except")
  /\ UNCHANGED <<wfOthers, wfConfig, wfLocals, wstate, rstate, result, wfHistory>>

\* agent.run and the token bookkeeping of the iteration
AgentRun ==
  /\ pc = "agent_run"
  /\ \E r \in Responses :
       /\ agentRuns' = Append(agentRuns, r)
       /\ IF r.raises
            THEN /\ exc' = "AgentError"
                 /\ pc' = "step_except"
                 /\ UNCHANGED <<resp, rstate>>
            ELSE /\ resp' = r
                 /\ rstate' = [rstate EXCEPT
                                 !.iteration_token_counts = Append(@, IterTokens),
                                 !.total_tokens_used = @ + IterTokens]
                 /\ pc' = "process"
                 /\ UNCHANGED exc
  /\ idx' = 0
  /\ UNCHANGED <<wfOthers, wfConfig, iteration, step, wstate, result, timedOut,
                 ctx_tokens, compactRuns, hookLog, hookRaised>>

\* _process_iteration_result up to the thought
ProcessResult ==
  /\ pc = "process"
  /\ IF DetectFinalAnswer(resp)
       THEN /\ rstate' = AddObservation(
                           [rstate EXCEPT !.is_terminated = TRUE,
                                          !.termination_reason = "final_answer_tool",
                                          !.final_answer = "answer"], TRUE)
            /\ pc' = "step_done"
       ELSE IF resp.text
         THEN /\ rstate' = AddThought(rstate)
              /\ pc' = "h_thought"
         ELSE /\ pc' = "actions"
              /\ UNCHANGED rstate
  /\ UNCHANGED <<wfOthers, wfConfig, wfLocals, wstate, exc, result, wfHistory, hookLog,
                 hookRaised>>

\* trigger_thought
TriggerThought ==
  /\ pc = "h_thought"
  /\ HookStep("thought", "actions", "step_except")
  /\ UNCHANGED <<wfOthers, wfConfig, wfLocals, wstate, rstate, result, wfHistory>>

\* the loop over the tool calls: add_action for the next one
ProcessAction ==
  /\ pc = "actions"
  /\ IF idx < resp.tools
       THEN /\ rstate' = AddAction(rstate)
            /\ idx' = idx + 1
            /\ pc' = "h_action"
       ELSE /\ idx' = 0
            /\ pc' = "observations"
            /\ UNCHANGED rstate
  /\ UNCHANGED <<wfOthers, wfConfig, iteration, resp, step, wstate, exc, result, wfHistory,
                 hookLog, hookRaised>>

\* trigger_action
TriggerAction ==
  /\ pc = "h_action"
  /\ HookStep("action", "actions", "step_except")
  /\ UNCHANGED <<wfOthers, wfConfig, wfLocals, wstate, rstate, result, wfHistory>>

\* the loop over the tool results: add_observation for the next one
ProcessObservation ==
  /\ pc = "observations"
  /\ IF idx < resp.tools
       THEN /\ rstate' = AddObservation(rstate, FALSE)
            /\ idx' = idx + 1
            /\ pc' = "h_observation"
       ELSE /\ idx' = 0
            /\ pc' = "step_done"
            /\ UNCHANGED rstate
  /\ UNCHANGED <<wfOthers, wfConfig, iteration, resp, step, wstate, exc, result, wfHistory,
                 hookLog, hookRaised>>

\* trigger_observation
TriggerObservation ==
  /\ pc = "h_observation"
  /\ HookStep("observation", "observations", "step_except")
  /\ UNCHANGED <<wfOthers, wfConfig, wfLocals, wstate, rstate, result, wfHistory>>

\* complete the step record and state.add_step(step)
CompleteStep ==
  /\ pc = "step_done"
  /\ LET st == [step EXCEPT !.completed = TRUE, !.added = TRUE] IN
       /\ step' = st
       /\ wstate' = AddStep(wstate, st)
  /\ pc' = "h_step_complete"
  /\ UNCHANGED <<wfOthers, wfConfig, iteration, resp, idx, rstate, exc, result, wfHistory,
                 hookLog, hookRaised>>

\* trigger_step_complete (still inside the try of the iteration)
TriggerStepComplete ==
  /\ pc = "h_step_complete"
  /\ HookStep("step_complete", "h_iteration_complete", "step_except")
  /\ UNCHANGED <<wfOthers, wfConfig, wfLocals, wstate, rstate, result, wfHistory>>

\* the except branch of the iteration: record the error in the step and add the
\* step; a step already added is the same object, so its entry shows the error too
StepExcept ==
  /\ pc = "step_except"
  /\ LET st == [step EXCEPT !.error = exc, !.completed = TRUE, !.added = TRUE]
         marked == IF step.added
                     THEN [wstate EXCEPT !.steps[Len(wstate.steps)] = st]
                     ELSE wstate
     IN
       /\ step' = st
       /\ wstate' = AddStep(marked, st)
  /\ pc' = "h_step_error"
  /\ UNCHANGED <<wfOthers, wfConfig, iteration, resp, idx, rstate, exc, result, wfHistory,
                 hookLog, hookRaised>>

\* trigger_step_error, then `raise`
TriggerStepError ==
  /\ pc = "h_step_error"
  /\ HookStep("step_error", "run_except", "run_except")
  /\ UNCHANGED <<wfOthers, wfConfig, wfLocals, wstate, rstate, result, wfHistory>>

\* trigger_iteration_complete
TriggerIterationComplete ==
  /\ pc = "h_iteration_complete"
  /\ HookStep("iteration_complete", "loop", "run_except")
  /\ UNCHANGED <<wfOthers, wfConfig, wfLocals, wstate, rstate, result, wfHistory>>

\* after the loop: raise WorkflowMaxIterationsError or return the answer
AfterLoop ==
  /\ pc = "after_loop"
  /\ IF ~rstate.is_terminated
       THEN /\ rstate' = [rstate EXCEPT !.is_terminated = TRUE,
                                        !.termination_reason = "max_iterations"]
            /\ exc' = "WorkflowMaxIterationsError"
            /\ pc' = "run_except"
       ELSE /\ pc' = "run_ok"
            /\ UNCHANGED <<rstate, exc>>
  /\ UNCHANGED <<wfOthers, wfConfig, wfLocals, wstate, result, wfHistory, hookLog,
                 hookRaised>>

\* run, after _execute returned: mark complete and build the result
RunComplete ==
  /\ pc = "run_ok"
  /\ LET ws == [wstate EXCEPT !.is_complete = TRUE] IN
       /\ wstate' = ws
       /\ result' = [ResultOk(rstate.final_answer, ws, "completed")
                       EXCEPT !.returned = FALSE]
  /\ pc' = "h_workflow_complete"
  /\ UNCHANGED <<wfOthers, wfConfig, wfLocals, rstate, exc, wfHistory, hookLog, hookRaised>>

\* trigger_workflow_complete (inside run's try), then `return result`
TriggerWorkflowComplete ==
  /\ pc = "h_workflow_complete"
  /\ HookStep("workflow_complete", "done", "run_except")
  /\ result' = IF pc' = "done" THEN [result EXCEPT !.returned = TRUE] ELSE NoResult
  /\ UNCHANGED <<wfOthers, wfConfig, wfLocals, wstate, rstate, wfHistory>>

\* run's `except Exception`: mark the state failed
RunExcept ==
  /\ pc = "run_except"
  /\ wstate' = [wstate EXCEPT !.is_failed = TRUE]
  /\ pc' = "h_workflow_error"
  /\ UNCHANGED <<wfOthers, wfConfig, wfLocals, rstate, exc, result, wfHistory, hookLog,
                 hookRaised>>

\* trigger_workflow_error (inside the except handler), then return the failure;
\* an exception of the hook leaves run
TriggerWorkflowError ==
  /\ pc = "h_workflow_error"
  /\ LET e == exc IN
       /\ HookStep("workflow_error", "done", "raised")
       /\ result' = IF pc' = "done"
                      THEN ResultFail(e, wstate, FailReason(e))
                      ELSE NoResult
  /\ UNCHANGED <<wfOthers, wfConfig, wfLocals, wstate, rstate, wfHistory>>

\* asyncio.wait_for expires while _execute is suspended: the task is cancelled
\* and run's `except asyncio.TimeoutError` returns the failure
TimeoutExpire ==
  /\ timeout_seconds > 0
  /\ SuspensionPoint
  /\ timedOut' = TRUE
  /\ wstate' = [wstate EXCEPT !.is_failed = TRUE]
  /\ result' = TimeoutResult([wstate EXCEPT !.is_failed = TRUE])
  /\ pc' = "done"
  /\ UNCHANGED <<wfOthers, wfConfig, wfLocals, rstate, exc, agentRuns, ctx_tokens,
                 compactRuns, hookLog, hookRaised>>

NextWorkflow ==
  \/ Run
  \/ TriggerWorkflowStart
  \/ LoopTest
  \/ TriggerIterationStart
  \/ MaybeCompact
  \/ TriggerCompaction
  \/ TriggerStepStart
  \/ AgentRun
  \/ ProcessResult
  \/ TriggerThought
  \/ ProcessAction
  \/ TriggerAction
  \/ ProcessObservation
  \/ TriggerObservation
  \/ CompleteStep
  \/ TriggerStepComplete
  \/ StepExcept
  \/ TriggerStepError
  \/ TriggerIterationComplete
  \/ AfterLoop
  \/ RunComplete
  \/ TriggerWorkflowComplete
  \/ RunExcept
  \/ TriggerWorkflowError
  \/ TimeoutExpire

----------------------------------------------------------------------------
(*             Token counting and the compaction strategies                *)

(* Bounds of the model *)
MaxMsgs == 3
MaxCallsPerMessage == 2
MaxCompactions == 2
MaxPreserve == 2

(* TokenCounter.count_messages: overhead per message, per tool call, final *)
PerMessageOverhead == 4
ToolCallOverhead == 10
FinalOverhead == 3

(* what the encoding gives: tokens of a role name, and of the name plus the
   arguments of a tool call *)
RoleTokens == 1
CallTextTokens == 2

\* message contents, by token count and character length
EmptyContent == [tok |-> 0, len |-> 0]
SmallContent == [tok |-> 1, len |-> 4]
LargeContent == [tok |-> 6, len |-> 30]

Contents == {SmallContent, LargeContent}

\* MessageHistory.add_message: the message dict
Message(role, content, calls, tcid) ==
  [role |-> role, tok |-> content.tok, len |-> content.len, calls |-> calls,
   tool_call_id |-> tcid]

\* TokenCounter.count_messages: the tokens one message adds
MessageTokens(m) ==
  PerMessageOverhead + m.tok + RoleTokens
    + Len(m.calls) * (CallTextTokens + ToolCallOverhead)

RECURSIVE SumMessageTokens(_)
SumMessageTokens(ms) ==
  IF ms = <<>> THEN 0 ELSE MessageTokens(Head(ms)) + SumMessageTokens(Tail(ms))

\* TokenCounter.count_messages
CountTokens(ms) == SumMessageTokens(ms) + FinalOverhead

\* every strategy's first test: the input is within the target already
MeetsTargetStrictly(before, target) == before < target

MeetsTarget(before, target) == before <= target

\* CompactionResult
CompactionResult(ms, removed, before, label) ==
  [messages |-> ms, removed_count |-> removed, tokens_before |-> before,
   tokens_after |-> CountTokens(ms), strategy |-> label]

\* messages[-n:] and messages[:-n] for n > 0
LastN(ms, n) == SubSeq(ms, Len(ms) - n + 1, Len(ms))
ButLastN(ms, n) == SubSeq(ms, 1, Len(ms) - n)

\* ---- SlidingWindowStrategy ----

\* the split into removable and preserved messages
SlidingSplitsAlways(ms, preserve_recent) == preserve_recent > 0

SlidingSplits(ms, preserve_recent) ==
  preserve_recent > 0 /\ Len(ms) > preserve_recent

\* a loop that pops the newest removable message instead of the oldest
RECURSIVE SlidingLoopFromBack(_, _, _, _)
SlidingLoopFromBack(removable, preserved, target, removed) ==
  IF removable # <<>> /\ CountTokens(removable \o preserved) > target
    THEN SlidingLoopFromBack(SubSeq(removable, 1, Len(removable) - 1),
                             preserved, target, removed + 1)
    ELSE [messages |-> removable \o preserved, removed_count |-> removed]

\* pop from the front while the list is over target
RECURSIVE SlidingLoop(_, _, _, _)
SlidingLoop(removable, preserved, target, removed) ==
  IF removable # <<>> /\ CountTokens(removable \o preserved) > target
    THEN SlidingLoop(Tail(removable), preserved, target, removed + 1)
    ELSE [messages |-> removable \o preserved, removed_count |-> removed]

SlidingWindowCompact(ms, target, preserve_recent) ==
  LET before == CountTokens(ms) IN
  IF MeetsTarget(before, target)
    THEN CompactionResult(ms, 0, before, "sliding_window")
    ELSE LET split == SlidingSplits(ms, preserve_recent)
             preserved == IF split THEN LastN(ms, preserve_recent) ELSE <<>>
             removable == IF split THEN ButLastN(ms, preserve_recent) ELSE ms
             r == SlidingLoop(removable, preserved, target, 0)
         IN CompactionResult(r.messages, r.removed_count, before, "sliding_window")

\* ---- SummarizeOlderStrategy ----

(* tokens of "[Previous conversation summary: Conversation with N messages.]" *)
SummaryBaseTokens == 12
(* tokens of "Topics discussed: " and "..." *)
SummaryTopicsTokens == 4
(* tokens of "Tools used: " and a tool name *)
SummaryToolsTokens == 4

IsUser(m) == m.role = "user"
IsToolCall(m) == m.role = "assistant" /\ m.calls # <<>>

\* tokens of the topics: the contents of the first three user messages
RECURSIVE TopicTokens(_)
TopicTokens(us) ==
  IF us = <<>> THEN 0 ELSE Head(us).tok + 1 + TopicTokens(Tail(us))

\* _simple_summary: the summary text, as its token count
SummaryTokens(ms) ==
  LET users == SelectSeq(ms, IsUser)
      first3 == SubSeq(users, 1, IF Len(users) < 3 THEN Len(users) ELSE 3)
  IN SummaryBaseTokens
       + (IF users # <<>> THEN SummaryTopicsTokens + TopicTokens(first3) ELSE 0)
       + (IF SelectSeq(ms, IsToolCall) # <<>> THEN SummaryToolsTokens ELSE 0)

SummaryMessage(ms) ==
  [role |-> "system", tok |-> SummaryTokens(ms), len |-> 4 * SummaryTokens(ms),
   calls |-> <<>>, tool_call_id |-> 0]

SummarizeOlderCompact(ms, target, preserve_recent) ==
  LET before == CountTokens(ms) IN
  IF MeetsTarget(before, target)
    THEN CompactionResult(ms, 0, before, "summarize_older")
    ELSE LET split == preserve_recent > 0 /\ Len(ms) > preserve_recent
             to_preserve == IF split THEN LastN(ms, preserve_recent) ELSE ms
             to_summarize == IF split THEN ButLastN(ms, preserve_recent) ELSE <<>>
         IN IF to_summarize = <<>>
              THEN CompactionResult(to_preserve, 0, before, "summarize_older")
              ELSE CompactionResult(<<SummaryMessage(to_summarize)>> \o to_preserve,
                                    Len(to_summarize), before, "summarize_older")

\* ---- SelectivePruningStrategy ----

(* tokens of "[Tool calls executed: " ... "]" and of one tool name in it *)
NoteBaseTokens == 6
NoteNameTokens == 2

Range(seq) == {seq[i] : i \in DOMAIN seq}

\* the summary that replaces an assistant message with n tool calls
ToolNote(n) ==
  [role |-> "system", tok |-> NoteBaseTokens + n * NoteNameTokens,
   len |-> 4 * (NoteBaseTokens + n * NoteNameTokens), calls |-> <<>>,
   tool_call_id |-> 0]

\* _find_tool_call_pairs: tool_call_indices[id] when message i is read
CallIndex(ms, i) ==
  LET js == {j \in 1..(i - 1) : ms[j].role = "assistant"
                                  /\ ms[i].tool_call_id \in Range(ms[j].calls)}
  IN IF js = {} THEN 0 ELSE CHOOSE j \in js : \A k \in js : k <= j

\* _find_tool_call_pairs: (call index, result index), in the order of the results
RECURSIVE FindToolCallPairsFrom(_, _)
FindToolCallPairsFrom(ms, i) ==
  IF i > Len(ms) THEN <<>>
  ELSE IF ms[i].role = "tool" /\ ms[i].tool_call_id # 0 /\ CallIndex(ms, i) # 0
    THEN <<(<<CallIndex(ms, i), i>>)>> \o FindToolCallPairsFrom(ms, i + 1)
    ELSE FindToolCallPairsFrom(ms, i + 1)

FindToolCallPairs(ms) == FindToolCallPairsFrom(ms, 1)

\* the indices selective pruning does not touch
SelectivePreserved(ms, preserve_recent) ==
  IF preserve_recent > 0
    THEN {i \in 1..Len(ms) : i > Len(ms) - preserve_recent}
    ELSE {}

\* the first assistant message of the list that carries these tool calls
FirstWithCalls(ms, calls) ==
  LET js == {j \in 1..Len(ms) : ms[j].role = "assistant" /\ ms[j].calls = calls}
  IN IF js = {} THEN 0 ELSE CHOOSE j \in js : \A k \in js : j <= k

\* one pair of the loop: replace the call by a note, drop its results
PruneCall(cur, calls) ==
  LET j == FirstWithCalls(cur.messages, calls)
      replaced == IF j = 0 THEN cur.messages
                  ELSE [cur.messages EXCEPT ![j] = ToolNote(Len(calls))]
      keep(m) == ~(m.role = "tool" /\ m.tool_call_id \in Range(calls))
  IN [messages |-> SelectSeq(replaced, keep),
      removed_count |-> cur.removed_count + (IF j = 0 THEN 0 ELSE 1)]

RECURSIVE SelectiveLoop(_, _, _, _, _)
SelectiveLoop(ms, pairs, preserved, target, cur) ==
  IF pairs = <<>> \/ CountTokens(cur.messages) <= target THEN cur
  ELSE LET pair == Head(pairs) IN
       IF pair[1] \in preserved \/ pair[2] \in preserved
         THEN SelectiveLoop(ms, Tail(pairs), preserved, target, cur)
         ELSE SelectiveLoop(ms, Tail(pairs), preserved, target,
                            PruneCall(cur, ms[pair[1]].calls))

SelectivePruningCompact(ms, target, preserve_recent) ==
  LET before == CountTokens(ms) IN
  IF MeetsTarget(before, target)
    THEN CompactionResult(ms, 0, before, "selective_pruning")
    ELSE LET r == SelectiveLoop(ms, FindToolCallPairs(ms),
                                SelectivePreserved(ms, preserve_recent), target,
                                [messages |-> ms, removed_count |-> 0])
         IN CompactionResult(r.messages, r.removed_count, before, "selective_pruning")

\* ---- ImportanceScoringStrategy ----

\* _heuristic_scores: role_score * 0.4, in thousandths
RoleScore(m) ==
  CASE m.role = "system" -> 400
    [] m.role = "user" -> 280
    [] m.role = "assistant" /\ m.calls # <<>> -> 200
    [] m.role = "assistant" -> 240
    [] m.role = "tool" -> 120
    [] OTHER -> 200

\* _heuristic_scores: min(len(content) / 500, 0.2), in thousandths
LengthScore(m) == IF 2 * m.len < 200 THEN 2 * m.len ELSE 200

\* _heuristic_scores: the score of message i (from 1), times 1000 * len(messages);
\* for the messages of NextMessages the integers order as the floats do
HeuristicScore(ms, i) ==
  500 * (i - 1) + Len(ms) * (RoleScore(ms[i]) + LengthScore(ms[i]))

\* removable.sort(key=score): the first of the sorted list (the sort is stable)
LowestScored(ms, idxs) ==
  CHOOSE i \in idxs : \A j \in idxs :
    \/ HeuristicScore(ms, i) < HeuristicScore(ms, j)
    \/ HeuristicScore(ms, i) = HeuristicScore(ms, j) /\ i <= j

\* the messages of a list at a set of indices, in the original order
RECURSIVE AtIndicesFrom(_, _, _)
AtIndicesFrom(ms, idxs, i) ==
  IF i > Len(ms) THEN <<>>
  ELSE (IF i \in idxs THEN <<ms[i]>> ELSE <<>>) \o AtIndicesFrom(ms, idxs, i + 1)

AtIndices(ms, idxs) == AtIndicesFrom(ms, idxs, 1)

\* pop the lowest scored while the list is over target
RECURSIVE ImportanceLoop(_, _, _, _, _)
ImportanceLoop(ms, removable, preserved, target, removed) ==
  IF removable # {} /\ CountTokens(AtIndices(ms, removable \cup preserved)) > target
    THEN ImportanceLoop(ms, removable \ {LowestScored(ms, removable)}, preserved,
                        target, removed + 1)
    ELSE [messages |-> AtIndices(ms, removable \cup preserved),
          removed_count |-> removed]

ImportanceScoringCompact(ms, target, preserve_recent) ==
  LET before == CountTokens(ms) IN
  IF MeetsTarget(before, target)
    THEN CompactionResult(ms, 0, before, "importance_scoring")
    ELSE LET preserved == IF preserve_recent > 0
                            THEN {i \in 1..Len(ms) : i > Len(ms) - preserve_recent}
                            ELSE {}
             r == ImportanceLoop(ms, (1..Len(ms)) \ preserved, preserved, target, 0)
         IN CompactionResult(r.messages, r.removed_count, before, "importance_scoring")

\* ---- HybridStrategy ----

\* the label "hybrid(a+b)" of the strategies that ran
HybridLabel(used) ==
  CASE
       used = <<"selective_pruning">> -> "hybrid(selective_pruning)"
    [] used = <<"selective_pruning", "sliding_window">> ->
         "hybrid(selective_pruning+sliding_window)"

\* what the next strategy is given: the messages the previous one returned
HybridInputOriginal(ms, previous) == ms

HybridInput(ms, previous) == previous.messages

\* the default strategies, applied in order while the list is over target
HybridCompact(ms, target, preserve_recent) ==
  LET before == CountTokens(ms) IN
  IF MeetsTarget(before, target)
    THEN CompactionResult(ms, 0, before, "hybrid")
    ELSE LET r1 == SelectivePruningCompact(ms, target, preserve_recent)
         IN IF CountTokens(r1.messages) <= target
              THEN CompactionResult(r1.messages, r1.removed_count, before,
                                    HybridLabel(<<"selective_pruning">>))
              ELSE LET r2 == SlidingWindowCompact(HybridInput(ms, r1), target,
                                                    preserve_recent)
                   IN CompactionResult(r2.messages,
                                       r1.removed_count + r2.removed_count, before,
                                       HybridLabel(<<"selective_pruning", "sliding_window">>))

----------------------------------------------------------------------------
(*                            ContextManager                               *)

(* Bounds of the model *)
MaxCallIds == 2
Target == 20

StrategyNames ==
  {"sliding_window", "summarize_older", "selective_pruning",
   "importance_scoring", "hybrid"}

TargetTokens == {Target}

\* MessageHistory.system_prompt when it is None
NoPrompt == EmptyContent

\* ContextManager._create_strategy and the strategy's compact
StrategyCompact(name, ms, target, preserve_recent) ==
  CASE name = "sliding_window" -> SlidingWindowCompact(ms, target, preserve_recent)
    [] name = "summarize_older" -> SummarizeOlderCompact(ms, target, preserve_recent)
    [] name = "selective_pruning" -> SelectivePruningCompact(ms, target, preserve_recent)
    [] name = "importance_scoring" -> ImportanceScoringCompact(ms, target, preserve_recent)
    [] name = "hybrid" -> HybridCompact(ms, target, preserve_recent)

\* ContextManager.get_token_count
TokenCount(ms, prompt) == CountTokens(ms) + prompt.tok

\* the tool-call ids of the assistant messages, and of the tool messages
CallIds(ms) ==
  UNION {Range(ms[i].calls) : i \in {j \in DOMAIN ms : ms[j].role = "assistant"}}

ResultIds(ms) ==
  {ms[i].tool_call_id : i \in {j \in DOMAIN ms : ms[j].role = "tool"}}

\* the calls still waiting for their result
Outstanding(ms) == CallIds(ms) \ ResultIds(ms)

\* the tool-call ids next..next+n-1
RECURSIVE FreshCalls(_, _)
FreshCalls(next, n) ==
  IF n = 0 THEN <<>> ELSE <<next>> \o FreshCalls(next + 1, n - 1)

\* the messages a conversation can go on with
NextMessages(ms, next) ==
  IF Outstanding(ms) # {}
    THEN {Message("tool", SmallContent, <<>>, id) : id \in Outstanding(ms)}
    ELSE {Message("user", c, <<>>, 0) : c \in Contents}
           \cup {Message("system", LargeContent, <<>>, 0)}
           \cup {Message("assistant", SmallContent, <<>>, 0)}
           \cup {Message("assistant", SmallContent, FreshCalls(next, n), 0) :
                   n \in {k \in 1..MaxCallsPerMessage : next + k - 1 <= MaxCallIds}}

\* ContextManager.__init__
ContextInit ==
  /\ strategy \in StrategyNames
  /\ target_tokens \in TargetTokens
  /\ preserve_recent_turns \in 0..MaxPreserve
  /\ preserve_system_prompt \in BOOLEAN
  /\ messages = <<>>
  /\ system_prompt = NoPrompt
  /\ compaction_history = <<>>
  /\ nextCallId = 1
  /\ added = 0
  /\ cmOp = [op |-> "init"]

\* a context manager that is constructed and never used
ContextIdle ==
  /\ strategy = "sliding_window"
  /\ target_tokens = Target
  /\ preserve_recent_turns = 0
  /\ preserve_system_prompt = TRUE
  /\ messages = <<>>
  /\ system_prompt = NoPrompt
  /\ compaction_history = <<>>
  /\ nextCallId = 1
  /\ added = 0
  /\ cmOp = [op |-> "init"]

\* the compaction history after the stored list of messages changed in place:
\* compact assigns the result's list itself to the history, so the last result
\* of the compaction history shows what is appended afterwards
Aliased(history, ms) ==
  IF history = <<>> THEN history
  ELSE [history EXCEPT ![Len(history)].messages = ms]

\* ContextManager.add_messages, with one message
AddMessages ==
  /\ added < MaxMsgs
  /\ added' = added + 1
  /\ \E m \in NextMessages(messages, nextCallId) :
       /\ IF m.role = "system" /\ preserve_system_prompt
            THEN /\ system_prompt' = [tok |-> m.tok, len |-> m.len]
                 /\ UNCHANGED <<messages, compaction_history>>
            ELSE /\ messages' = Append(messages, m)
                 /\ compaction_history' =
                      Aliased(compaction_history, Append(messages, m))
                 /\ UNCHANGED system_prompt
       /\ nextCallId' = nextCallId + Len(m.calls)
  /\ cmOp' = [op |-> "add_messages"]
  /\ UNCHANGED <<cmOthers, cmConfig>>

\* ContextManager.set_system_prompt
SetSystemPrompt ==
  /\ system_prompt' = LargeContent
  /\ cmOp' = [op |-> "set_system_prompt"]
  /\ UNCHANGED <<cmOthers, cmConfig, messages, compaction_history, nextCallId,
                 added>>

\* a manager that records only the compactions that removed something
RecordCompactionIfRemoved(history, r) ==
  IF r.removed_count = 0 THEN history ELSE Append(history, r)

\* ContextManager.compact: self._compaction_history.append(result)
RecordCompaction(history, r) == Append(history, r)

\* ContextManager.compact
Compact ==
  /\ Len(compaction_history) < MaxCompactions
  /\ LET r == StrategyCompact(strategy, messages, target_tokens,
                              preserve_recent_turns)
     IN /\ messages' = r.messages
        /\ compaction_history' = RecordCompaction(compaction_history, r)
        /\ cmOp' = [op |-> "compact"]
  /\ UNCHANGED <<cmOthers, cmConfig, system_prompt, nextCallId, added>>

\* ContextManager.clear
Clear ==
  /\ messages' = <<>>
  /\ compaction_history' = <<>>
  /\ cmOp' = [op |-> "clear"]
  /\ UNCHANGED <<cmOthers, cmConfig, system_prompt, nextCallId, added>>

NextCompact ==
  \/ AddMessages
  \/ SetSystemPrompt
  \/ Compact
  \/ Clear

\* ---- compact with a summarization agent, and a second task ----

(* the messages another task may add while one compact call is suspended *)
MaxConcurrent == 2

(* tokens of "[Previous conversation summary: " and "]" around the output *)
SummaryWrapTokens == 8

\* the summary message made from the summarization agent's output
AgentSummaryMessage(output) ==
  [role |-> "system", tok |-> SummaryWrapTokens + output.tok,
   len |-> 4 * (SummaryWrapTokens + output.tok), calls |-> <<>>,
   tool_call_id |-> 0]

\* SummarizeOlderStrategy.compact reaches `await self._create_summary(...)`
\* exactly when the input exceeds the target and there are older messages
Summarizes(ms, target, preserve_recent) ==
  /\ ~MeetsTarget(CountTokens(ms), target)
  /\ preserve_recent > 0
  /\ Len(ms) > preserve_recent

Suspended == cmOp.op = "compact_suspended"

\* ContextManager.compact up to the await of the summarization agent's run:
\* the strategy works on the copy get_messages() returned
CompactBegin ==
  /\ ~Suspended
  /\ Len(compaction_history) < MaxCompactions
  /\ Summarizes(messages, target_tokens, preserve_recent_turns)
  /\ cmOp' = [op |-> "compact_suspended", snapshot |-> messages,
              during |-> <<>>]
  /\ UNCHANGED <<cmOthers, cmConfig, messages, system_prompt,
                 compaction_history, nextCallId, added>>

\* ContextManager.add_messages, with one message, called by another task
\* while compact is suspended
AddMessagesConcurrently ==
  /\ Suspended
  /\ Len(cmOp.during) < MaxConcurrent
  /\ \E m \in NextMessages(messages, nextCallId) :
       /\ IF m.role = "system" /\ preserve_system_prompt
            THEN /\ system_prompt' = [tok |-> m.tok, len |-> m.len]
                 /\ UNCHANGED <<messages, compaction_history, cmOp>>
            ELSE /\ messages' = Append(messages, m)
                 /\ compaction_history' =
                      Aliased(compaction_history, Append(messages, m))
                 /\ cmOp' = [cmOp EXCEPT !.during = Append(@, m)]
                 /\ UNCHANGED system_prompt
       /\ nextCallId' = nextCallId + Len(m.calls)
  /\ UNCHANGED <<cmOthers, cmConfig, added>>

\* ContextManager.compact from the agent's answer on: the strategy builds its
\* result from the copy, and compact stores and records it
CompactResume ==
  /\ Suspended
  /\ \E output \in Contents :
       LET ms == cmOp.snapshot
           r == CompactionResult(
                  <<AgentSummaryMessage(output)>>
                    \o LastN(ms, preserve_recent_turns),
                  Len(ButLastN(ms, preserve_recent_turns)),
                  CountTokens(ms), "summarize_older")
       IN /\ messages' = r.messages
          /\ compaction_history' = RecordCompaction(compaction_history, r)
  /\ cmOp' = [op |-> "compact_resumed", during |-> cmOp.during]
  /\ UNCHANGED <<cmOthers, cmConfig, system_prompt, nextCallId, added>>

\* add_messages by the task that also calls compact
AddMessagesBetween == ~Suspended /\ AddMessages

NextCompactAsync ==
  \/ AddMessagesBetween
  \/ CompactBegin
  \/ AddMessagesConcurrently
  \/ CompactResume


----------------------------------------------------------------------------
(*                             UsageTracker                                *)

(* Bounds of the tracker *)
MaxRecords == 2
MaxTok == 2
MaxModelCalls == 2

\* TokenUsage(): the aggregate of a new tracker
TokenUsage ==
  [prompt_tokens |-> 0, completion_tokens |-> 0, total_tokens |-> 0,
   request_count |-> 0, cached_tokens |-> 0]

\* UsageRecord(...), without the timestamp and the labels
UsageRecord(prompt, completion, total) ==
  [prompt_tokens |-> prompt, completion_tokens |-> completion,
   total_tokens |-> total]

\* a pydantic-ai usage object; a field that is None or missing reads as 0
Usage(input, request, output, response, total, requests) ==
  [input_tokens |-> input, request_tokens |-> request,
   output_tokens |-> output, response_tokens |-> response,
   total_tokens |-> total, requests |-> requests]

\* the usage objects handed to record_usage: the deprecated names are set or
\* not, total_tokens is unset or counts more than input and output
Usages ==
  {Usage(i, rq, o, rs, t, k) :
     i \in 0..MaxTok, rq \in {0, MaxTok}, o \in 0..MaxTok, rs \in {0, MaxTok},
     t \in {0, 2 * MaxTok + 1}, k \in 1..MaxModelCalls}

\* Python's `a or b` on token counts: None and 0 are both false
Or(a, b) == IF a # 0 THEN a ELSE b

\* record_usage: prompt_tokens, completion_tokens, total_tokens
PromptTokens(usage) == Or(Or(usage.input_tokens, usage.request_tokens), 0)

CompletionTokens(usage) == Or(Or(usage.output_tokens, usage.response_tokens), 0)

TotalTokens(usage) ==
  Or(usage.total_tokens, PromptTokens(usage) + CompletionTokens(usage))

\* record_usage: the record built from a usage object
RecordOfUsage(usage) ==
  UsageRecord(PromptTokens(usage), CompletionTokens(usage), TotalTokens(usage))

\* record_raw: the record built from raw counts
RecordOfRaw(prompt_tokens, completion_tokens) ==
  UsageRecord(prompt_tokens, completion_tokens, prompt_tokens + completion_tokens)

\* a tracker that adds prompt + completion to the total instead of the
\* record's total
AddToTotalsFromParts(totals, record) ==
  [totals EXCEPT !.prompt_tokens = @ + record.prompt_tokens,
                 !.completion_tokens = @ + record.completion_tokens,
                 !.total_tokens = @ + record.prompt_tokens + record.completion_tokens,
                 !.request_count = @ + 1]

\* record_usage, record_raw: "Update totals"
AddToTotals(totals, record) ==
  [totals EXCEPT !.prompt_tokens = @ + record.prompt_tokens,
                 !.completion_tokens = @ + record.completion_tokens,
                 !.total_tokens = @ + record.total_tokens,
                 !.request_count = @ + 1]

\* UsageTracker.__init__
TrackerInit ==
  /\ usage_records = <<>>
  /\ usage_totals = TokenUsage
  /\ utOp = [op |-> "init"]

\* UsageTracker.record_usage
RecordUsage ==
  /\ Len(usage_records) < MaxRecords
  /\ \E usage \in Usages :
       /\ usage_records' = Append(usage_records, RecordOfUsage(usage))
       /\ usage_totals' = AddToTotals(usage_totals, RecordOfUsage(usage))
  /\ utOp' = [op |-> "record_usage"]
  /\ UNCHANGED utOthers

\* UsageTracker.record_raw
RecordRaw ==
  /\ Len(usage_records) < MaxRecords
  /\ \E prompt_tokens \in 0..MaxTok, completion_tokens \in 0..MaxTok :
       LET record == RecordOfRaw(prompt_tokens, completion_tokens)
       IN /\ usage_records' = Append(usage_records, record)
          /\ usage_totals' = AddToTotals(usage_totals, record)
  /\ utOp' = [op |-> "record_raw"]
  /\ UNCHANGED utOthers

\* UsageTracker.reset
TrackerReset ==
  /\ usage_records' = <<>>
  /\ usage_totals' = TokenUsage
  /\ utOp' = [op |-> "reset"]
  /\ UNCHANGED utOthers

NextTracker ==
  \/ RecordUsage
  \/ RecordRaw
  \/ TrackerReset

----------------------------------------------------------------------------
(*                                 Agent                                   *)

(* Bounds of the agent *)
MaxRuns == 2
MaxChunks == 2
TriggerThreshold == 32

\* a part of a pydantic-ai message, by its type name, content and tool_call_id
Part(kind, content, id) ==
  [part |-> kind, content |-> content, tool_call_id |-> id]

\* a pydantic-ai message, by its type name and parts
ModelMessage(type, parts) == [type |-> type, parts |-> parts]

\* model_messages_to_dicts: the dicts of the parts of a ModelRequest
RECURSIVE RequestDicts(_)
RequestDicts(parts) ==
  IF parts = <<>> THEN <<>>
  ELSE LET p == Head(parts)
           d == CASE p.part = "SystemPromptPart" ->
                       <<Message("system", p.content, <<>>, 0)>>
                  [] p.part = "UserPromptPart" ->
                       <<Message("user", p.content, <<>>, 0)>>
                  [] p.part = "ToolReturnPart" ->
                       <<Message("tool", p.content, <<>>, p.tool_call_id)>>
                  [] OTHER -> <<>>
       IN d \o RequestDicts(Tail(parts))

\* model_messages_to_dicts: " ".join(text_parts) if text_parts else ""
RECURSIVE JoinText(_)
JoinText(parts) ==
  IF parts = <<>> THEN EmptyContent
  ELSE LET rest == JoinText(Tail(parts))
           p == Head(parts)
       IN IF p.part # "TextPart" THEN rest
          ELSE IF SelectSeq(Tail(parts), LAMBDA q : q.part = "TextPart") = <<>>
            THEN p.content
            ELSE [tok |-> p.content.tok + rest.tok,
                  len |-> p.content.len + 1 + rest.len]

\* model_messages_to_dicts: the ids of the tool calls of a ModelResponse
RECURSIVE ToolCallsOf(_)
ToolCallsOf(parts) ==
  IF parts = <<>> THEN <<>>
  ELSE (IF Head(parts).part = "ToolCallPart"
          THEN <<Head(parts).tool_call_id>> ELSE <<>>)
         \o ToolCallsOf(Tail(parts))

\* model_messages_to_dicts
RECURSIVE ModelMessagesToDicts(_)
ModelMessagesToDicts(msgs) ==
  IF msgs = <<>> THEN <<>>
  ELSE LET msg == Head(msgs)
           d == CASE msg.type = "ModelRequest" -> RequestDicts(msg.parts)
                  [] msg.type = "ModelResponse" ->
                       <<Message("assistant", JoinText(msg.parts),
                                 ToolCallsOf(msg.parts), 0)>>
                  [] OTHER -> <<>>
       IN d \o ModelMessagesToDicts(Tail(msgs))

\* dicts_to_model_messages: the loop, with current_request_parts
RECURSIVE DictsToModelMessagesFrom(_, _)
DictsToModelMessagesFrom(msgs, current_request_parts) ==
  LET flush == IF current_request_parts # <<>>
                 THEN <<ModelMessage("ModelRequest", current_request_parts)>>
                 ELSE <<>>
  IN IF msgs = <<>> THEN flush
     ELSE LET msg == Head(msgs)
              content == [tok |-> msg.tok, len |-> msg.len]
              response_parts ==
                (IF content.len > 0 THEN <<Part("TextPart", content, 0)>> ELSE <<>>)
                  \o [i \in 1..Len(msg.calls) |->
                        Part("ToolCallPart", EmptyContent, msg.calls[i])]
          IN CASE msg.role = "system" ->
                    DictsToModelMessagesFrom(Tail(msgs),
                      Append(current_request_parts,
                             Part("SystemPromptPart", content, 0)))
               [] msg.role = "user" ->
                    <<ModelMessage("ModelRequest",
                        Append(current_request_parts,
                               Part("UserPromptPart", content, 0)))>>
                      \o DictsToModelMessagesFrom(Tail(msgs), <<>>)
               [] msg.role = "assistant" ->
                    flush
                      \o (IF response_parts # <<>>
                            THEN <<ModelMessage("ModelResponse", response_parts)>>
                            ELSE <<>>)
                      \o DictsToModelMessagesFrom(Tail(msgs), <<>>)
               [] msg.role = "tool" ->
                    DictsToModelMessagesFrom(Tail(msgs),
                      Append(current_request_parts,
                             Part("ToolReturnPart", content, msg.tool_call_id)))
               [] OTHER -> DictsToModelMessagesFrom(Tail(msgs), current_request_parts)

\* dicts_to_model_messages
DictsToModelMessages(msgs) == DictsToModelMessagesFrom(msgs, <<>>)

\* the underlying run: n rounds of one tool call and its return
RECURSIVE ToolRounds(_, _)
ToolRounds(n, next) ==
  IF n = 0 THEN <<>>
  ELSE <<ModelMessage("ModelResponse", <<Part("ToolCallPart", EmptyContent, next)>>),
         ModelMessage("ModelRequest", <<Part("ToolReturnPart", SmallContent, next)>>)>>
         \o ToolRounds(n - 1, next + 1)

\* result.new_messages() of a run with k model calls: the prompt, k - 1 rounds
\* of tool calls, the final response
NewMessages(k, prompt, next) ==
  <<ModelMessage("ModelRequest", <<Part("UserPromptPart", prompt, 0)>>)>>
    \o ToolRounds(k - 1, next)
    \o <<ModelMessage("ModelResponse", <<Part("TextPart", SmallContent, 0)>>)>>

\* result.usage() of a run with k model calls (total_tokens is input + output)
RunUsage(k, input) == Usage(input, 0, k, 0, input + k, k)

\* AgentResult(result)
AgentResult(usage, new_messages) ==
  [usage |-> usage, new_messages |-> new_messages]

\* no run has returned
NoRun == AgentResult(Usage(0, 0, 0, 0, 0, 0), <<>>)

\* no stream is open
NoStream == [history |-> <<>>, left |-> 0]

\* ContextManager.add_messages: the loop over the messages
RECURSIVE AfterAddMessages(_, _, _)
AfterAddMessages(hist, new, preserve) ==
  IF new = <<>> THEN hist
  ELSE LET m == Head(new)
       IN AfterAddMessages(
            IF m.role = "system" /\ preserve
              THEN [hist EXCEPT !.system_prompt = [tok |-> m.tok, len |-> m.len]]
              ELSE [hist EXCEPT !.messages = Append(@, m)],
            Tail(new), preserve)

\* a manager that compacts only above the threshold
ShouldCompactAbove(ms, prompt, threshold) == TokenCount(ms, prompt) > threshold

\* ContextManager.should_compact
ShouldCompact(ms, prompt, threshold) == TokenCount(ms, prompt) >= threshold

\* Agent.__init__, with the default system prompt (""): the tracker always, the
\* context manager only when track_context is on
AgentInit ==
  /\ track_context \in BOOLEAN
  /\ auto_compact \in BOOLEAN
  /\ trigger_threshold_tokens = TriggerThreshold
  /\ agPc = "idle"
  /\ run_result = NoRun
  /\ runs = 0
  /\ postRun = <<>>
  /\ stream = NoStream
  /\ TrackerInit
  /\ IF track_context THEN ContextInit ELSE ContextIdle

\* Agent.run up to `result = await self._agent.run(...)`, which returns
RunModel ==
  /\ agPc = "idle"
  /\ runs < MaxRuns
  /\ runs' = runs + 1
  /\ \E k \in 1..MaxModelCalls, prompt \in Contents :
       /\ run_result' = AgentResult(RunUsage(k, MaxTok),
                                    NewMessages(k, prompt, nextCallId))
       /\ nextCallId' = nextCallId + (k - 1)
  /\ agPc' = "record_usage"
  /\ postRun' = <<>>
  /\ UNCHANGED <<agOthers, agConfig, utVars, cmConfig, messages, system_prompt,
                 compaction_history, added, cmOp, stream>>

\* Agent.run when `await self._agent.run(...)` raises: the hook is not reached
RunRaises ==
  /\ agPc = "idle"
  /\ runs < MaxRuns
  /\ runs' = runs + 1
  /\ run_result' = NoRun
  /\ postRun' = <<>>
  /\ UNCHANGED <<agOthers, agConfig, agPc, utVars, cmVars, stream>>

\* _post_run_hook, 1: record usage
HookRecordUsage ==
  /\ agPc = "record_usage"
  /\ usage_records' = Append(usage_records, RecordOfUsage(run_result.usage))
  /\ usage_totals' = AddToTotals(usage_totals, RecordOfUsage(run_result.usage))
  /\ utOp' = [op |-> "record_usage"]
  /\ agPc' = IF track_context THEN "add_messages" ELSE "idle"
  /\ postRun' = Append(postRun, "record_usage")
  /\ UNCHANGED <<agOthers, agConfig, run_result, runs, cmVars, stream>>

\* _post_run_hook, 2: track the new messages in the context manager
HookAddMessages ==
  /\ agPc = "add_messages"
  /\ LET hist == AfterAddMessages(
                   [messages |-> messages, system_prompt |-> system_prompt],
                   ModelMessagesToDicts(run_result.new_messages),
                   preserve_system_prompt)
     IN /\ messages' = hist.messages
        /\ system_prompt' = hist.system_prompt
        /\ compaction_history' = Aliased(compaction_history, hist.messages)
  /\ cmOp' = [op |-> "add_messages"]
  /\ agPc' = "auto_compact"
  /\ postRun' = Append(postRun, "add_messages")
  /\ UNCHANGED <<agOthers, agConfig, run_result, runs, utVars, cmConfig,
                 nextCallId, added, stream>>

\* _post_run_hook, 3: auto-compact if enabled and threshold reached; run returns
HookAutoCompact ==
  /\ agPc = "auto_compact"
  /\ IF auto_compact
          /\ ShouldCompact(messages, system_prompt, trigger_threshold_tokens)
       THEN LET r == StrategyCompact(strategy, messages, target_tokens,
                                     preserve_recent_turns)
            IN /\ messages' = r.messages
               /\ compaction_history' = RecordCompaction(compaction_history, r)
               /\ cmOp' = [op |-> "compact"]
               /\ postRun' = Append(postRun, "compact")
       ELSE UNCHANGED <<messages, compaction_history, cmOp, postRun>>
  /\ agPc' = "idle"
  /\ UNCHANGED <<agOthers, agConfig, run_result, runs, utVars, cmConfig,
                 system_prompt, nextCallId, added, stream>>

\* Agent.run_stream up to `yield result`: the stream is open, nothing is read
StreamOpen ==
  /\ agPc = "idle"
  /\ runs < MaxRuns
  /\ runs' = runs + 1
  /\ \E k \in 1..MaxModelCalls, prompt \in Contents :
       /\ run_result' = AgentResult(RunUsage(k, MaxTok),
                                    NewMessages(k, prompt, nextCallId))
       /\ nextCallId' = nextCallId + (k - 1)
  /\ stream' = [history |-> IF track_context
                              THEN DictsToModelMessages(messages) ELSE <<>>,
                left |-> MaxChunks]
  /\ agPc' = "streaming"
  /\ postRun' = <<>>
  /\ UNCHANGED <<agOthers, agConfig, utVars, cmConfig, messages, system_prompt,
                 compaction_history, added, cmOp>>

\* the caller reads one chunk of the streamed result
StreamChunk ==
  /\ agPc = "streaming"
  /\ stream.left > 0
  /\ stream' = [stream EXCEPT !.left = @ - 1]
  /\ UNCHANGED <<agOthers, agConfig, agPc, run_result, runs, postRun, utVars,
                 cmVars>>

\* Agent.run_stream after `yield result`: the caller asks the generator for
\* its next item, and the generator tracks usage and messages
StreamResume ==
  /\ agPc = "streaming"
  /\ usage_records' = Append(usage_records, RecordOfUsage(run_result.usage))
  /\ usage_totals' = AddToTotals(usage_totals, RecordOfUsage(run_result.usage))
  /\ utOp' = [op |-> "record_usage"]
  /\ IF track_context
       THEN LET all_messages == stream.history \o run_result.new_messages
                hist == AfterAddMessages(
                          [messages |-> messages, system_prompt |-> system_prompt],
                          ModelMessagesToDicts(all_messages),
                          preserve_system_prompt)
                compacts == auto_compact
                              /\ ShouldCompact(hist.messages, hist.system_prompt,
                                               trigger_threshold_tokens)
                r == StrategyCompact(strategy, hist.messages, target_tokens,
                                     preserve_recent_turns)
            IN /\ system_prompt' = hist.system_prompt
               /\ messages' = IF compacts THEN r.messages ELSE hist.messages
               /\ compaction_history' =
                    LET tracked == Aliased(compaction_history, hist.messages)
                    IN  IF compacts THEN RecordCompaction(tracked, r) ELSE tracked
               /\ cmOp' = [op |-> IF compacts THEN "compact" ELSE "add_messages"]
               /\ postRun' = <<"record_usage", "add_messages">>
                               \o (IF compacts THEN <<"compact">> ELSE <<>>)
       ELSE /\ postRun' = <<"record_usage">>
            /\ UNCHANGED <<messages, system_prompt, compaction_history, cmOp>>
  /\ agPc' = "idle"
  /\ UNCHANGED <<agOthers, agConfig, run_result, runs, stream, cmConfig,
                 nextCallId, added>>

\* the caller leaves the loop over run_stream: the generator is closed at its
\* yield and the code after it never runs
StreamClose ==
  /\ agPc = "streaming"
  /\ agPc' = "idle"
  /\ UNCHANGED <<agOthers, agConfig, run_result, runs, postRun, stream, utVars,
                 cmVars>>

NextAgent ==
  \/ RunModel
  \/ RunRaises
  \/ HookRecordUsage
  \/ HookAddMessages
  \/ HookAutoCompact
  \/ StreamOpen
  \/ StreamChunk
  \/ StreamResume
  \/ StreamClose

----------------------------------------------------------------------------
(*                           MCPClientManager                              *)

(* Bound of the manager *)
\* configured servers
MaxServers == 3

\* MCPServerConfig: the transport and whether command and url are given
ServerConfigs ==
  [transport : {"stdio", "sse"}, command : BOOLEAN, url : BOOLEAN]

\* the lists of configurations a manager is constructed with
RECURSIVE ConfigLists(_)
ConfigLists(n) ==
  IF n = 0 THEN {<<>>}
  ELSE {Append(cs, c) : cs \in ConfigLists(n - 1), c \in ServerConfigs}

\* start_server raises ValueError: no command for stdio, no url for sse
StartFails(config) ==
  \/ config.transport = "stdio" /\ ~config.command
  \/ config.transport = "sse" /\ ~config.url

\* ServerLifecycleManager.stop_all: every tracked server is removed from
\* _servers and its state set to STOPPED
StopAll(states, servers) ==
  [n \in DOMAIN states |-> IF n \in servers THEN "stopped" ELSE states[n]]

NotInUse == [at |-> "new", mode |-> "none", idx |-> 0, exit |-> "none"]

\* MCPClientManager(configs), with at least one server
McpInit ==
  /\ mcp_configs \in UNION {ConfigLists(n) : n \in 1..MaxServers}
  /\ mcp_servers = {}
  /\ mcp_states = [n \in DOMAIN mcp_configs |-> "absent"]
  /\ mcp_errors = {}
  /\ mcUse = NotInUse

\* a manager without servers that is never used
McpIdle ==
  /\ mcp_configs = <<>>
  /\ mcp_servers = {}
  /\ mcp_states = <<>>
  /\ mcp_errors = {}
  /\ mcUse = NotInUse

\* `async with manager`: __aenter__ begins to connect the servers
ContextEnter ==
  /\ mcUse.at = "new"
  /\ mcUse' = [at |-> "connecting", mode |-> "context", idx |-> 1,
               exit |-> "none"]
  /\ UNCHANGED <<mcOthers, mcp_configs, mcp_servers, mcp_states, mcp_errors>>

\* connect_all begins to connect the servers
ConnectAll ==
  /\ mcUse.at = "new"
  /\ mcUse' = [at |-> "connecting", mode |-> "connect_all", idx |-> 1,
               exit |-> "none"]
  /\ UNCHANGED <<mcOthers, mcp_configs, mcp_servers, mcp_states, mcp_errors>>

\* one turn of the loop over the configurations: start_server.  A failure
\* leaves the loop and the caller by exception: __aenter__ raised, so
\* __aexit__ is not run
StartServer ==
  /\ mcUse.at = "connecting"
  /\ LET name == mcUse.idx
         last == name = Len(mcp_configs)
     IN IF StartFails(mcp_configs[name])
          THEN /\ mcp_states' = [mcp_states EXCEPT ![name] = "error"]
               /\ mcp_errors' = mcp_errors \cup {name}
               /\ mcUse' = [mcUse EXCEPT !.at = "done", !.exit = "start_failed"]
               /\ UNCHANGED mcp_servers
          ELSE /\ mcp_servers' = mcp_servers \cup {name}
               /\ mcp_states' = [mcp_states EXCEPT ![name] = "running"]
               /\ UNCHANGED mcp_errors
               /\ mcUse' = IF ~last
                             THEN [mcUse EXCEPT !.idx = name + 1]
                           ELSE IF mcUse.mode = "context"
                             THEN [mcUse EXCEPT !.at = "body"]
                           ELSE [mcUse EXCEPT !.at = "connected"]
  /\ UNCHANGED <<mcOthers, mcp_configs>>

\* the body of `async with` ends, by return or by exception: __aexit__
ContextExit ==
  /\ mcUse.at = "body"
  /\ \E raised \in BOOLEAN :
       mcUse' = [mcUse EXCEPT !.at = "done",
                              !.exit = IF raised THEN "body_raised"
                                       ELSE "body_ok"]
  /\ mcp_states' = StopAll(mcp_states, mcp_servers)
  /\ mcp_servers' = {}
  /\ UNCHANGED <<mcOthers, mcp_configs, mcp_errors>>

\* disconnect_all, called after connect_all returned
DisconnectAll ==
  /\ mcUse.at = "connected"
  /\ mcUse' = [mcUse EXCEPT !.at = "done", !.exit = "disconnected"]
  /\ mcp_states' = StopAll(mcp_states, mcp_servers)
  /\ mcp_servers' = {}
  /\ UNCHANGED <<mcOthers, mcp_configs, mcp_errors>>

\* the server names the callers of a lifecycle manager use
ServerNames == 1..MaxServers

\* a stop_server without the test for a tracked server
StopServerAlways(states, servers, name) ==
  [states EXCEPT ![name] = "stopped"]

\* ServerLifecycleManager.stop_server, on _states: nothing for a name that
\* is not in _servers, otherwise STOPPED
StopServer(states, servers, name) ==
  IF name \notin servers THEN states
  ELSE [states EXCEPT ![name] = "stopped"]

\* ServerLifecycleManager.get_server: is there a server for the name
GetServer(name) == name \in mcp_servers

\* ServerLifecycleManager.get_status: a name without state reads as STOPPED
GetStatus(name) ==
  [state |-> IF mcp_states[name] = "absent" THEN "stopped"
             ELSE mcp_states[name],
   error |-> name \in mcp_errors]

\* the call a lifecycle manager has just completed
Called(op, name, exit) ==
  [at |-> "lifecycle", mode |-> op, idx |-> name, exit |-> exit]

\* ServerLifecycleManager(), used directly
LifecycleInit ==
  /\ mcp_configs = <<>>
  /\ mcp_servers = {}
  /\ mcp_states = [n \in ServerNames |-> "absent"]
  /\ mcp_errors = {}
  /\ mcUse = Called("init", 0, "returned")

\* ServerLifecycleManager.start_server, for a configuration of any name
LifecycleStart ==
  /\ mcUse.at = "lifecycle"
  /\ \E name \in ServerNames, config \in ServerConfigs :
       IF StartFails(config)
         THEN /\ mcp_states' = [mcp_states EXCEPT ![name] = "error"]
              /\ mcp_errors' = mcp_errors \cup {name}
              /\ mcUse' = Called("start_server", name, "raised")
              /\ UNCHANGED mcp_servers
         ELSE /\ mcp_servers' = mcp_servers \cup {name}
              /\ mcp_states' = [mcp_states EXCEPT ![name] = "running"]
              /\ mcUse' = Called("start_server", name, "returned")
              /\ UNCHANGED mcp_errors
  /\ UNCHANGED <<mcOthers, mcp_configs>>

\* ServerLifecycleManager.stop_server, for any name
LifecycleStop ==
  /\ mcUse.at = "lifecycle"
  /\ \E name \in ServerNames :
       /\ mcp_states' = StopServer(mcp_states, mcp_servers, name)
       /\ mcp_servers' = mcp_servers \ {name}
       /\ mcUse' = Called("stop_server", name, "returned")
  /\ UNCHANGED <<mcOthers, mcp_configs, mcp_errors>>

\* ServerLifecycleManager.stop_all
LifecycleStopAll ==
  /\ mcUse.at = "lifecycle"
  /\ mcp_states' = StopAll(mcp_states, mcp_servers)
  /\ mcp_servers' = {}
  /\ mcUse' = Called("stop_all", 0, "returned")
  /\ UNCHANGED <<mcOthers, mcp_configs, mcp_errors>>

NextLifecycle ==
  \/ LifecycleStart
  \/ LifecycleStop
  \/ LifecycleStopAll

NextMcp ==
  \/ ContextEnter
  \/ ConnectAll
  \/ StartServer
  \/ ContextExit
  \/ DisconnectAll

----------------------------------------------------------------------------
(*                            Specifications                               *)

\* a breaker that is constructed and never used
BreakerIdle ==
  /\ failure_threshold = 1 /\ success_threshold = 1
  /\ timeout = 0 /\ window_size = 1
  /\ now = 0
  /\ cbState = "closed"
  /\ failures = <<>>
  /\ last_failure_time = NoTime
  /\ half_open_successes = 0
  /\ stats = CircuitStats
  /\ cbOp = [op |-> "init", ret |-> TRUE]
  /\ failureLog = <<>>
  /\ openedAt = NoTime
  /\ lastFailAt = NoTime
  /\ halfOpenLog = 0
  /\ halfOpenGrants = 0

\* a workflow that is constructed and never run
WorkflowIdle ==
  /\ max_iterations = 1
  /\ enable_hooks = FALSE
  /\ timeout_seconds = 0
  /\ auto_compact_in_workflow = FALSE
  /\ expose_reasoning = TRUE
  /\ max_consecutive_thoughts = DefaultMaxConsecutiveThoughts
  /\ pc = "idle"
  /\ iteration = 0
  /\ wstate = [current_step |-> 1, total_steps |-> 0, iteration_count |-> 0,
               is_complete |-> FALSE, is_failed |-> FALSE, steps |-> <<>>]
  /\ rstate = <<>>
  /\ resp = <<>>
  /\ idx = 0
  /\ step = <<>>
  /\ exc = "none"
  /\ result = <<>>
  /\ agentRuns = <<>>
  /\ hookLog = <<>>
  /\ hookRaised = {}
  /\ timedOut = FALSE
  /\ ctx_tokens = 0
  /\ compactRuns = 0

\* an agent that is constructed and never run, and its tracker
AgentIdle ==
  /\ track_context = FALSE
  /\ auto_compact = FALSE
  /\ trigger_threshold_tokens = TriggerThreshold
  /\ agPc = "idle"
  /\ run_result = NoRun
  /\ runs = 0
  /\ postRun = <<>>
  /\ stream = NoStream

InitBreaker == BreakerInit /\ WorkflowIdle /\ ContextIdle /\ TrackerInit /\ AgentIdle
  /\ McpIdle

SpecBreaker == InitBreaker /\ [][NextBreaker]_vars

InitWorkflow == WorkflowInit /\ BreakerIdle /\ ContextIdle /\ TrackerInit /\ AgentIdle
  /\ McpIdle

SpecWorkflow == InitWorkflow /\ [][NextWorkflow]_vars

\* a ReActState on its own, as constructed: no workflow runs over it
ReActStateInit ==
  /\ max_iterations = 1
  /\ enable_hooks = FALSE
  /\ timeout_seconds = 0
  /\ auto_compact_in_workflow = FALSE
  /\ expose_reasoning = TRUE
  /\ max_consecutive_thoughts = DefaultMaxConsecutiveThoughts
  /\ pc = "react_state"
  /\ iteration = 0
  /\ wstate = InitialWorkflowState
  /\ rstate = InitialReActState
  /\ resp = NoResponse
  /\ idx = 0
  /\ step = NoStep
  /\ exc = "none"
  /\ result = NoResult
  /\ agentRuns = <<>>
  /\ hookLog = <<>>
  /\ hookRaised = {}
  /\ timedOut = FALSE
  /\ ctx_tokens = 0
  /\ compactRuns = 0

\* a caller's add_thought
StateAddThought ==
  /\ pc = "react_state"
  /\ Len(rstate.scratchpad) < MaxEntries
  /\ rstate' = AddThought(rstate)
  /\ UNCHANGED <<wfOthers, wfConfig, pc, wfLocals, wstate, exc, result,
                 wfHistory, hookLog, hookRaised>>

\* a caller's add_action
StateAddAction ==
  /\ pc = "react_state"
  /\ Len(rstate.scratchpad) < MaxEntries
  /\ rstate' = AddAction(rstate)
  /\ UNCHANGED <<wfOthers, wfConfig, pc, wfLocals, wstate, exc, result,
                 wfHistory, hookLog, hookRaised>>

\* a caller's add_observation
StateAddObservation ==
  /\ pc = "react_state"
  /\ Len(rstate.scratchpad) < MaxEntries
  /\ \E final \in BOOLEAN : rstate' = AddObservation(rstate, final)
  /\ UNCHANGED <<wfOthers, wfConfig, pc, wfLocals, wstate, exc, result,
                 wfHistory, hookLog, hookRaised>>

NextReActState ==
  \/ StateAddThought
  \/ StateAddAction
  \/ StateAddObservation

InitReActState ==
  ReActStateInit /\ BreakerIdle /\ ContextIdle /\ TrackerInit /\ AgentIdle
  /\ McpIdle

SpecReActState == InitReActState /\ [][NextReActState]_vars

InitReAct == ReActInit /\ BreakerIdle /\ ContextIdle /\ TrackerInit /\ AgentIdle
  /\ McpIdle

SpecReAct == InitReAct /\ [][NextWorkflow]_vars

InitCompact == ContextInit /\ BreakerIdle /\ WorkflowIdle /\ TrackerInit /\ AgentIdle
  /\ McpIdle

SpecCompact == InitCompact /\ [][NextCompact]_vars

\* a context manager configured with the sliding-window strategy
InitSliding == InitCompact /\ strategy = "sliding_window"

SpecSliding == InitSliding /\ [][NextCompact]_vars

\* a manager whose summarize_older strategy holds a summarization agent
InitCompactAsync == InitCompact /\ strategy = "summarize_older"

SpecCompactAsync == InitCompactAsync /\ [][NextCompactAsync]_vars

InitTracker == TrackerInit /\ BreakerIdle /\ WorkflowIdle /\ ContextIdle /\ AgentIdle
  /\ McpIdle

SpecTracker == InitTracker /\ [][NextTracker]_vars

InitAgent == AgentInit /\ BreakerIdle /\ WorkflowIdle /\ McpIdle

SpecAgent == InitAgent /\ [][NextAgent]_vars

InitMcp ==
  McpInit /\ BreakerIdle /\ WorkflowIdle /\ ContextIdle /\ TrackerInit
  /\ AgentIdle

SpecMcp == InitMcp /\ [][NextMcp]_vars

InitLifecycle ==
  LifecycleInit /\ BreakerIdle /\ WorkflowIdle /\ ContextIdle /\ TrackerInit
  /\ AgentIdle

SpecLifecycle == InitLifecycle /\ [][NextLifecycle]_vars

----------------------------------------------------------------------------
(*                    Properties of the CircuitBreaker                     *)

\* C8: a record_failure made while the breaker is closed leaves it open
\* exactly when at least failure_threshold of the failures recorded since the
\* window was last emptied lie within the last window_size seconds (older
\* failures do not count); and an allow_request made on an open breaker less
\* than timeout seconds after it opened returns false and leaves it open.
C8_OpensAtThreshold ==
  [][ /\ (cbOp'.op = "record_failure" /\ cbState = "closed") =>
           (cbState' = "open" <=>
              InWindow(failureLog', now', window_size) >= failure_threshold)
      /\ (cbOp'.op = "allow_request" /\ cbState = "open"
            /\ now - openedAt < timeout) =>
           (cbOp'.ret = FALSE /\ cbState' = "open") ]_vars

\* C8 witness: the breaker was opened by failure_threshold failures inside the
\* window although an older failure had been recorded too, and allow_request
\* has just been refused.
C8_Witness ==
  /\ cbOp.op = "allow_request" /\ cbOp.ret = FALSE
  /\ cbState = "open"
  /\ failure_threshold = 2
  /\ InWindow(failureLog, openedAt, window_size) = 2
  /\ Len(failureLog) = 3

\* C9 as stated: an allow_request on an open breaker returns true exactly when
\* timeout seconds have passed since the breaker opened.
C9_Original ==
  [][ (cbOp'.op = "allow_request" /\ cbState = "open") =>
        (cbOp'.ret <=> now - openedAt >= timeout) ]_vars

\* C9 amended: an allow_request on an open breaker returns false, leaving it
\* open, while less than timeout seconds have passed since the most recent
\* recorded failure; once timeout seconds have passed since that failure it
\* returns true and moves the breaker to half-open with the half-open success
\* counter at 0.
C9_TimeoutFromLastFailure ==
  [][ (cbOp'.op = "allow_request" /\ cbState = "open") =>
        IF now - lastFailAt >= timeout
          THEN cbOp'.ret = TRUE /\ cbState' = "half_open"
               /\ half_open_successes' = 0
          ELSE cbOp'.ret = FALSE /\ cbState' = "open" ]_vars

\* C9 witness: a failure was recorded while the breaker was open, and the
\* allow_request made timeout seconds after it has moved the breaker to
\* half-open.
C9_Witness ==
  /\ cbOp.op = "allow_request" /\ cbOp.ret = TRUE
  /\ cbState = "half_open" /\ half_open_successes = 0
  /\ timeout > 0
  /\ lastFailAt > openedAt
  /\ now - lastFailAt = timeout

\* C10: a record_success made while the breaker is half-open closes it exactly
\* when it is the success_threshold-th success since half-open was entered;
\* otherwise the breaker stays half-open; on closing the failure window is
\* emptied.
C10_ClosesAtSuccessThreshold ==
  [][ (cbOp'.op = "record_success" /\ cbState = "half_open") =>
        /\ cbState' = "closed" <=> halfOpenLog' = success_threshold
        /\ cbState' # "closed" => cbState' = "half_open"
        /\ cbState' = "closed" => failures' = <<>> ]_vars

\* C10 witness: the second success of a half-open period has closed a breaker
\* whose threshold is two, after an earlier half-open period ended in a failure.
C10_Witness ==
  /\ cbOp.op = "record_success"
  /\ cbState = "closed"
  /\ success_threshold = 2 /\ halfOpenLog = 2
  /\ stats.successful_calls = 3
  /\ failures = <<>>

(* C11: in half-open a single record_failure opens the breaker at once,
   whatever failure_threshold is and however many successes were counted; and
   whenever half-open is entered the count of successes starts again from 0. *)
C11_HalfOpenFailureReopens ==
  [][ /\ (cbOp'.op = "record_failure" /\ cbState = "half_open") =>
           cbState' = "open"
      /\ (cbState # "half_open" /\ cbState' = "half_open") =>
           half_open_successes' = 0 ]_vars

\* a failure after one counted success re-opened a half-open breaker although
\* fewer than failure_threshold failures lie in the window
C11_Witness ==
  /\ cbOp.op = "record_failure"
  /\ cbState = "open"
  /\ half_open_successes = 1
  /\ failure_threshold = 2
  /\ InWindow(failureLog, now, window_size) < failure_threshold

(* C12: a half-open breaker admits only a limited probe: the requests that
   allow_request() lets through before any outcome is recorded are bounded,
   here by success_threshold, the number of successes that closes it. *)
C12_HalfOpenProbeLimited == halfOpenGrants <= success_threshold

(* C13: entering the context manager while the breaker is open and the
   timeout has not elapsed raises CircuitBreakerOpenError with the seconds
   until retry, adds 1 to rejected_calls and changes nothing else: no call is
   counted, the failure window and the state stay as they were. *)
C13_OpenRejectsEntry ==
  [][ ( /\ cbOp'.op = "enter"
        /\ cbState = "open"
        /\ now - last_failure_time < timeout ) =>
        /\ cbOp'.ret = FALSE
        /\ cbOp'.retry = timeout - (now - last_failure_time)
        /\ stats' = [stats EXCEPT !.rejected_calls = @ + 1]
        /\ cbState' = "open"
        /\ failures' = failures
        /\ last_failure_time' = last_failure_time
        /\ half_open_successes' = half_open_successes ]_vars

C13_Witness ==
  /\ cbOp.op = "enter" /\ cbOp.ret = FALSE
  /\ cbOp.retry = 1
  /\ timeout = 2
  /\ last_failure_time > 0
  /\ cbState = "open"
  /\ stats.rejected_calls = 1

\* C32: without reset(), every change of the breaker's state is closed->open,
\* open->half-open, half-open->closed or half-open->open: reading the state
\* (allow_request, the context manager) only moves open to half-open,
\* record_success only half-open to closed, and record_failure only closed or
\* half-open to open.
C32_TransitionsAllowed ==
  [][ (cbOp'.op # "reset" /\ cbState' # cbState) =>
        /\ <<cbState, cbState'>> \in {<<"closed", "open">>,
                                      <<"open", "half_open">>,
                                      <<"half_open", "closed">>,
                                      <<"half_open", "open">>}
        /\ cbOp'.op \in {"state", "allow_request", "enter"} =>
             cbState = "open"
        /\ cbOp'.op = "record_success" => cbState = "half_open"
        /\ cbOp'.op = "record_failure" => cbState' = "open"
        /\ stats'.state_changes = stats.state_changes + 1 ]_vars

\* the breaker went closed, open, half-open, open, half-open, closed: each of
\* the four changes has happened
C32_Witness ==
  /\ cbState = "closed"
  /\ stats.state_changes = 5
  /\ stats.failed_calls = 2
  /\ stats.successful_calls = 1

\* C38: a failure recorded while the breaker is open leaves it open and counts
\* no state change; it becomes the failure the open period is measured from,
\* so allow_request keeps returning false until timeout seconds have passed
\* since it, also when they have passed since the breaker opened.
C38_LateFailurePostpones ==
  [][ /\ (cbOp'.op = "record_failure" /\ cbState = "open") =>
           /\ cbState' = "open"
           /\ stats'.state_changes = stats.state_changes
           /\ half_open_successes' = half_open_successes
           /\ last_failure_time' = now
      /\ (cbOp'.op = "allow_request" /\ cbState = "open"
            /\ last_failure_time > openedAt) =>
           /\ last_failure_time = lastFailAt
           /\ cbOp'.ret <=> now - last_failure_time >= timeout ]_vars

\* a failure came in after the breaker opened, and the allow_request made
\* timeout seconds after the opening was refused
C38_Witness ==
  /\ cbOp.op = "allow_request" /\ cbOp.ret = FALSE
  /\ cbState = "open"
  /\ timeout > 0
  /\ lastFailAt > openedAt
  /\ now - openedAt >= timeout
  /\ now - lastFailAt < timeout

----------------------------------------------------------------------------
(*                       Properties of the workflow                        *)

\* no agent run raised, no hook raised and the timeout did not expire
NoException ==
  /\ hookRaised = {}
  /\ ~timedOut
  /\ \A i \in DOMAIN agentRuns : ~agentRuns[i].raises

\* some agent run's response carried a final_answer tool call
AnswerGiven == \E i \in DOMAIN agentRuns : agentRuns[i].final

\* number of scratchpad entries of a kind
CountEntries(kind) ==
  Cardinality({i \in DOMAIN rstate.scratchpad :
                 rstate.scratchpad[i].entry_type = kind})

\* C1: the agent is run at most max_iterations times and never again after a
\* response that called final_answer; a run that ends without exception and
\* without timeout has succeeded exactly when some iteration's response called
\* final_answer, and otherwise has failed with WorkflowMaxIterationsError.
C1_CompletesIffFinalAnswer ==
  /\ Len(agentRuns) <= max_iterations
  /\ \A i \in DOMAIN agentRuns : agentRuns[i].final => i = Len(agentRuns)
  /\ (pc = "done" /\ NoException) =>
       /\ result.returned
       /\ result.success <=> AnswerGiven
       /\ ~result.success => result.error = "WorkflowMaxIterationsError"

\* C1 witness: with hooks enabled and none raising, the second of at most three
\* iterations called final_answer and the run has returned success.
C1_Witness ==
  /\ pc = "done" /\ NoException
  /\ enable_hooks
  /\ max_iterations = 3
  /\ Len(agentRuns) = 2
  /\ result.success

\* C2 as stated: an exception raised by a hook never becomes the exception in
\* flight of the run, never leaves run(), and a run without agent exception and
\* without timeout ends as a run without hook exceptions does: success exactly
\* when final_answer was called, WorkflowMaxIterationsError otherwise.
C2_HookExceptionsSwallowed ==
  /\ exc # "HookError"
  /\ pc # "raised"
  /\ (pc = "done" /\ ~timedOut /\ \A i \in DOMAIN agentRuns : ~agentRuns[i].raises) =>
       /\ result.success <=> AnswerGiven
       /\ ~result.success => result.error = "WorkflowMaxIterationsError"

\* C3 as stated: after max_iterations iterations whose responses carried only
\* text, the returned result has success = false, termination_reason =
\* "max_iterations", max_iterations iterations and as many thoughts.
C3_MaxIterationsResult ==
  (/\ pc = "done" /\ NoException
   /\ Len(agentRuns) = max_iterations
   /\ \A i \in DOMAIN agentRuns :
        agentRuns[i].text /\ ~agentRuns[i].final /\ agentRuns[i].tools = 0) =>
    /\ result.success = FALSE
    /\ result.termination_reason = "max_iterations"
    /\ result.total_iterations = max_iterations
    /\ CountEntries("thought") = max_iterations

\* C4 as stated: run never raises to its caller; whenever it ends after a
\* failure it has returned a result with success = false, an error message and
\* the steps accumulated in the state.
C4_RunNeverRaises ==
  /\ pc # "raised"
  /\ (pc = "done" /\ (exc # "none" \/ timedOut)) =>
       /\ result.returned
       /\ result.success = FALSE
       /\ result.error # "none"
       /\ result.total_steps = Len(wstate.steps)

\* C23: when timeout_seconds elapses before the execution finishes, run
\* returns success = false with termination_reason "timeout", the state is
\* failed, the execution is cancelled so that no iteration, step or agent run
\* is recorded afterwards, and the returned state keeps the steps recorded
\* before the expiry.
C23_TimeoutCancels ==
  [][ /\ (timedOut' /\ ~timedOut) =>
           /\ result'.returned
           /\ result'.success = FALSE
           /\ result'.termination_reason = "timeout"
           /\ wstate'.is_failed
           /\ wstate'.steps = wstate.steps
           /\ wstate'.iteration_count = wstate.iteration_count
           /\ result'.total_steps = Len(wstate.steps)
           /\ agentRuns' = agentRuns
           /\ rstate' = rstate
      /\ timedOut => UNCHANGED <<wstate, rstate, agentRuns, result, hookLog>> ]_vars

\* the timeout expired in the second iteration, after one step was recorded
C23_Witness ==
  /\ timedOut
  /\ pc = "done"
  /\ result.termination_reason = "timeout"
  /\ Len(wstate.steps) = 1
  /\ wstate.iteration_count = 2

\* the scratchpad entries the responses of the agent runs call for: one
\* observation for a final answer, otherwise a thought for the text and an
\* action and an observation for each tool call
RECURSIVE EntriesCalledFor(_)
EntriesCalledFor(rs) ==
  IF rs = <<>> THEN 0
  ELSE EntriesCalledFor(Tail(rs))
         + (IF Head(rs).final THEN 1
            ELSE (IF Head(rs).text THEN 1 ELSE 0) + 2 * Head(rs).tools)

C25_ThoughtsOnlyWhenExposed ==
  ~expose_reasoning => CountEntries("thought") = 0

\* C26: the prompt submitted to the agent is the raw task in iteration 1; in
\* every later iteration it carries the "must call a tool now" instruction
\* exactly when consecutive_thought_count has reached max_consecutive_thoughts,
\* and the "continue" instruction otherwise.
C26_ForceActionPrompt ==
  pc = "agent_run" =>
    /\ iteration = 1 => step.input_data = "task"
    /\ iteration >= 2 =>
         /\ step.input_data \in {"force_action", "continue"}
         /\ step.input_data = "force_action" <=>
              rstate.consecutive_thought_count >= max_consecutive_thoughts

\* the third iteration is submitted with the instruction to act after two
\* iterations of thought only, with a limit of two
C26_Witness ==
  /\ pc = "agent_run"
  /\ iteration = 3
  /\ max_consecutive_thoughts = 2
  /\ rstate.consecutive_thought_count = 2
  /\ step.input_data = "force_action"

\* C27: at the start of an iteration the context is compacted, once, exactly
\* when auto_compact_in_workflow is set and the context's token count is at
\* least compact_threshold_ratio x trigger_threshold_tokens; compaction_count
\* is the number of iterations at which the compaction ran.
C27_CompactionInWorkflow ==
  /\ [](rstate.compaction_count = compactRuns /\ compactRuns <= iteration)
  /\ [][ (pc = "maybe_compact" /\ pc' \in {"h_compaction", "h_step_start"}) =>
           /\ compactRuns' \in {compactRuns, compactRuns + 1}
           /\ compactRuns' = compactRuns + 1 <=>
                /\ auto_compact_in_workflow
                /\ 100 * ctx_tokens' >=
                     CompactThresholdPercent * trigger_threshold_tokens
           /\ compactRuns' = compactRuns + 1 <=> pc' = "h_compaction" ]_vars
  /\ [][ pc # "maybe_compact" => compactRuns' = compactRuns ]_vars

\* a run of two iterations compacted at one of them: the context was just
\* under the threshold at the other
C27_Witness ==
  /\ pc = "done"
  /\ result.success
  /\ auto_compact_in_workflow
  /\ iteration = 2
  /\ compactRuns = 1
  /\ rstate.compaction_count = 1
  /\ 100 * ctx_tokens < CompactThresholdPercent * trigger_threshold_tokens

\* the thoughts of a scratchpad that come after its last action
RECURSIVE ThoughtsSinceAction(_)
ThoughtsSinceAction(sp) ==
  IF sp = <<>> THEN 0
  ELSE LET last == sp[Len(sp)]
       IN  IF last.entry_type = "action" THEN 0
           ELSE (IF last.entry_type = "thought" THEN 1 ELSE 0)
                  + ThoughtsSinceAction(SubSeq(sp, 1, Len(sp) - 1))

\* C28: after any sequence of add_thought, add_action and add_observation,
\* consecutive_thought_count is the number of thoughts added since the most
\* recent action, or since creation when no action was added: add_action sets
\* it to 0, add_thought adds 1 and add_observation leaves it unchanged.
C28_ConsecutiveThoughtCount ==
  /\ [](rstate.consecutive_thought_count =
          ThoughtsSinceAction(rstate.scratchpad))
  /\ [][ LET kind == rstate'.scratchpad[Len(rstate'.scratchpad)].entry_type
              count == rstate.consecutive_thought_count
         IN  /\ Len(rstate'.scratchpad) = Len(rstate.scratchpad) + 1
             /\ SubSeq(rstate'.scratchpad, 1, Len(rstate.scratchpad))
                  = rstate.scratchpad
             /\ kind = "thought" => rstate'.consecutive_thought_count = count + 1
             /\ kind = "action" => rstate'.consecutive_thought_count = 0
             /\ kind = "observation" =>
                  rstate'.consecutive_thought_count = count ]_vars

\* thought, action, thought, observation, thought: two thoughts since the
\* action, with an observation between them
C28_Witness ==
  /\ pc = "react_state"
  /\ Len(rstate.scratchpad) = 5
  /\ [i \in 1..5 |-> rstate.scratchpad[i].entry_type]
       = <<"thought", "action", "thought", "observation", "thought">>
  /\ rstate.consecutive_thought_count = 2

\* the calls of a hook made during the run
HookCalls(hook) == Cardinality({i \in DOMAIN hookLog : hookLog[i] = hook})

\* C34: a run that returned with hooks enabled called on_workflow_start once,
\* first, and exactly one of on_workflow_complete and on_workflow_error once:
\* on_workflow_complete exactly when it succeeded; with hooks disabled no hook
\* was called.  A run that ends by timeout calls no terminal hook, and a run
\* whose on_workflow_complete raises calls both, so this is violated.
C34_OneTerminalHook ==
  (pc = "done" /\ result.returned) =>
    IF enable_hooks
      THEN /\ HookCalls("workflow_start") = 1
           /\ hookLog[1] = "workflow_start"
           /\ HookCalls("workflow_complete") + HookCalls("workflow_error") = 1
           /\ result.success <=> HookCalls("workflow_complete") = 1
      ELSE hookLog = <<>>

\* C35: in the state of a returned result is_complete and is_failed are not
\* both true, and success is true exactly when is_complete is true and
\* is_failed is false.  When on_workflow_complete raises, is_complete is
\* already set and the handler sets is_failed as well, so this is violated.
C35_CompleteXorFailed ==
  (pc = "done" /\ result.returned) =>
    /\ ~(wstate.is_complete /\ wstate.is_failed)
    /\ result.success <=> (wstate.is_complete /\ ~wstate.is_failed)

----------------------------------------------------------------------------
(*                 Properties of compaction and the context                *)

\* a step that is a call of ContextManager.compact
CompactStep ==
  /\ cmOp'.op = "compact"
  /\ Len(compaction_history') = Len(compaction_history) + 1

\* every tool call has its result in the list and every result its call
Paired(ms) == CallIds(ms) = ResultIds(ms)

\* the last min(preserve_recent, len) messages of a list
PreserveWindow(ms, preserve_recent) ==
  LastN(ms, IF preserve_recent < Len(ms) THEN preserve_recent ELSE Len(ms))

IsSuffix(suffix, ms) ==
  /\ Len(suffix) <= Len(ms)
  /\ LastN(ms, Len(suffix)) = suffix

\* TokenizerConfig.safety_margin, 5%, of the target
SafetyMargin(target) == (target * 5) \div 100

(* C5: compaction keeps tool calls and tool results together: when the calls
   and results of the stored messages are paired before compact(), with any
   strategy, they are paired after it: a call id is in the output exactly
   when the tool message with that id is. *)
C5_PairingPreserved ==
  [][ (CompactStep /\ Paired(messages)) => Paired(messages') ]_vars

(* C6: for every strategy and every preserve_recent >= 0, the last
   min(preserve_recent, len(messages)) messages of the input are, unchanged
   and in order, the suffix of the output of compact(). *)
C6_PreserveWindowKept ==
  [][ CompactStep =>
        IsSuffix(PreserveWindow(messages, preserve_recent_turns), messages') ]_vars

(* C7: after compact() the token count of the stored messages plus the system
   prompt is at most target_tokens plus the safety margin, unless the
   preserve window alone is over target_tokens (the exception is granted
   here whether or not the manager records it). *)
C7_TokenCountWithinTarget ==
  [][ CompactStep =>
        \/ TokenCount(messages', system_prompt')
             <= target_tokens + SafetyMargin(target_tokens)
        \/ CountTokens(PreserveWindow(messages, preserve_recent_turns))
             > target_tokens ]_vars

\* the CompactionResult a call of compact has just returned
LastResult == compaction_history'[Len(compaction_history')]

\* the ids of the tool calls of a list that no later tool message answers
InFlight(ms) ==
  {id \in CallIds(ms) :
     \E i \in DOMAIN ms :
       /\ ms[i].role = "assistant" /\ id \in Range(ms[i].calls)
       /\ ~\E j \in DOMAIN ms : j > i /\ ms[j].role = "tool"
                                  /\ ms[j].tool_call_id = id}

\* the assistant messages of a list that carry the tool call id
Carriers(ms, id) ==
  {ms[i] : i \in {j \in DOMAIN ms : ms[j].role = "assistant"
                                      /\ id \in Range(ms[j].calls)}}

NumSystem(ms) == Len(SelectSeq(ms, LAMBDA m : m.role = "system"))

(* C14: selective pruning leaves every in-flight tool call alone: an
   assistant tool call that no later tool message of the input answers is in
   the output, in the same unchanged assistant message. *)
C14_InFlightCallsKept ==
  [][ (CompactStep /\ strategy = "selective_pruning") =>
        \A id \in InFlight(messages) :
          Carriers(messages, id) \subseteq Carriers(messages', id) ]_vars

(* C15: when the stored messages are within target_tokens already, compact,
   with any strategy, returns them unchanged with removed_count = 0 and
   tokens_after = tokens_before; so compacting again a result that meets the
   target changes nothing. *)
C15_WithinTargetUnchanged ==
  [][ (CompactStep /\ CountTokens(messages) <= target_tokens) =>
        /\ messages' = messages
        /\ LastResult.messages = messages
        /\ LastResult.removed_count = 0
        /\ LastResult.tokens_before = CountTokens(messages)
        /\ LastResult.tokens_after = LastResult.tokens_before ]_vars

\* a second compact, made on the result of a first that removed messages and
\* met the target, has returned the same list
C15_Witness ==
  /\ cmOp.op = "compact"
  /\ Len(compaction_history) = 2
  /\ compaction_history[1].removed_count > 0
  /\ compaction_history[1].tokens_after <= target_tokens
  /\ compaction_history[1].messages # <<>>
  /\ compaction_history[2].tokens_before = compaction_history[1].tokens_after
  /\ compaction_history[2].messages = compaction_history[1].messages
  /\ messages = compaction_history[1].messages

(* C16: for every strategy the tokens_after that compact reports is at most
   max(tokens_before, target_tokens): the output never has more tokens than
   an input that was over target, synthetic messages included. *)
C16_TokensAfterBounded ==
  [][ CompactStep =>
        \/ LastResult.tokens_after <= LastResult.tokens_before
        \/ LastResult.tokens_after <= target_tokens ]_vars

(* C17: the removed_count that compact reports is len(input) - len(output)
   plus the number of synthetic messages put into the output (at least the
   growth in system messages, at most the system messages of the output);
   for sliding window that number is 0. *)
C17_RemovedCountExact ==
  [][ CompactStep =>
        LET lost == Len(messages) - Len(messages')
            grown == NumSystem(messages') - NumSystem(messages)
            least == IF strategy = "sliding_window" \/ grown < 0 THEN 0 ELSE grown
            most == IF strategy = "sliding_window" THEN 0 ELSE NumSystem(messages')
        IN \E inserts \in least..most :
             LastResult.removed_count = lost + inserts ]_vars

(* C18: the hybrid strategy runs selective pruning on the input and, only if
   its output is still over target, the sliding window on that output; the
   label names the strategies that ran, in order, and removed_count is the
   sum of theirs. *)
C18_HybridInOrder ==
  [][ (CompactStep /\ strategy = "hybrid" /\ CountTokens(messages) > target_tokens) =>
        LET r1 == SelectivePruningCompact(messages, target_tokens,
                                          preserve_recent_turns)
            r2 == SlidingWindowCompact(r1.messages, target_tokens,
                                       preserve_recent_turns)
        IN IF CountTokens(r1.messages) <= target_tokens
             THEN /\ LastResult.messages = r1.messages
                  /\ LastResult.strategy = "hybrid(selective_pruning)"
                  /\ LastResult.removed_count = r1.removed_count
             ELSE /\ LastResult.messages = r2.messages
                  /\ LastResult.strategy = "hybrid(selective_pruning+sliding_window)"
                  /\ LastResult.removed_count = r1.removed_count + r2.removed_count ]_vars

\* both strategies ran: selective pruning replaced a call, the sliding window
\* then removed messages
C18_Witness ==
  /\ cmOp.op = "compact"
  /\ strategy = "hybrid"
  /\ compaction_history # <<>>
  /\ LET r == compaction_history[Len(compaction_history)]
     IN /\ r.strategy = "hybrid(selective_pruning+sliding_window)"
        /\ r.removed_count >= 2
        /\ r.messages = messages
        /\ \E i \in DOMAIN messages : messages[i] = ToolNote(1)

\* C33: the sliding window removes from the front only: its output is the
\* input without its first removed_count messages, and it removes the fewest
\* that do: putting the last removed message back would exceed the target,
\* and the output meets the target unless every message outside the window
\* of preserved messages has been removed.
C33_SlidingRemovesFewestOldest ==
  [][ (cmOp'.op = "compact" /\ strategy = "sliding_window"
         /\ Len(compaction_history') = Len(compaction_history) + 1) =>
        LET r == compaction_history'[Len(compaction_history')]
            k == r.removed_count
            n == Len(messages)
        IN  /\ k \in 0..n
            /\ r.messages = SubSeq(messages, k + 1, n)
            /\ k > 0 => CountTokens(SubSeq(messages, k, n)) > target_tokens
            /\ \/ CountTokens(r.messages) <= target_tokens
               \/ k >= n - preserve_recent_turns ]_vars

\* one of three messages was removed and the two left meet the target
C33_Witness ==
  /\ cmOp.op = "compact"
  /\ strategy = "sliding_window"
  /\ compaction_history # <<>>
  /\ LET r == compaction_history[Len(compaction_history)]
     IN  /\ r.removed_count = 1
         /\ Len(r.messages) = 2
         /\ r.tokens_after <= target_tokens
         /\ r.tokens_before > target_tokens
         /\ messages = r.messages

\* C29: every compact(), also one that removes nothing, replaces the stored
\* messages with the result's messages and appends exactly one result to the
\* compaction history, leaving the system-prompt slot alone; the history keeps
\* its results in call order and only clear() empties it.
C29_CompactRecordsResult ==
  [][ LET n == Len(compaction_history)
      IN  /\ cmOp'.op = "compact" =>
               /\ Len(compaction_history') = n + 1
               /\ SubSeq(compaction_history', 1, n) = compaction_history
               /\ messages' = compaction_history'[n + 1].messages
               /\ system_prompt' = system_prompt
          /\ cmOp'.op \notin {"compact", "clear"} =>
               /\ Len(compaction_history') = n
               /\ \A i \in 1..n :
                    /\ i < n => compaction_history'[i] = compaction_history[i]
                    /\ [compaction_history'[i] EXCEPT !.messages = <<>>]
                         = [compaction_history[i] EXCEPT !.messages = <<>>]
          /\ Len(compaction_history') < n => cmOp'.op = "clear"
          /\ cmOp'.op = "clear" => compaction_history' = <<>> ]_vars

\* a compaction that removed nothing and a later one that removed messages
\* are both in the history, in that order
C29_Witness ==
  /\ cmOp.op = "compact"
  /\ Len(compaction_history) = 2
  /\ compaction_history[1].removed_count = 0
  /\ compaction_history[1].messages # <<>>
  /\ compaction_history[2].removed_count > 0
  /\ messages = compaction_history[2].messages
  /\ system_prompt # NoPrompt

----------------------------------------------------------------------------
(*              Properties of the UsageTracker and the Agent               *)

\* the sum of one field over the records
RECURSIVE SumField(_, _)
SumField(records, field) ==
  IF records = <<>> THEN 0
  ELSE Head(records)[field] + SumField(Tail(records), field)

\* C20: after any sequence of record_usage, record_raw and reset, the
\* aggregate equals the sum over the recorded history: prompt, completion and
\* total tokens are the sums of the record fields, request_count is the number
\* of records, and all are zero after a reset.
C20_AggregateIsSumOfRecords ==
  /\ usage_totals.prompt_tokens = SumField(usage_records, "prompt_tokens")
  /\ usage_totals.completion_tokens = SumField(usage_records, "completion_tokens")
  /\ usage_totals.total_tokens = SumField(usage_records, "total_tokens")
  /\ usage_totals.request_count = Len(usage_records)
  /\ utOp.op = "reset" => usage_records = <<>> /\ usage_totals = TokenUsage

\* two records after a reset, one whose total counts more than its parts
C20_Witness ==
  /\ Len(usage_records) = 2
  /\ usage_totals.request_count = 2
  /\ usage_totals.total_tokens
       > usage_totals.prompt_tokens + usage_totals.completion_tokens
  /\ usage_totals.prompt_tokens > 0
  /\ utOp.op = "record_raw"

\* C19: one UsageRecord is appended per model call: the post-run hook of a
\* run that made k model calls appends k records and raises request_count
\* by k.
C19_RecordPerModelCall ==
  [][ agPc = "record_usage" =>
        /\ Len(usage_records') = Len(usage_records) + run_result.usage.requests
        /\ usage_totals'.request_count
             = usage_totals.request_count + run_result.usage.requests ]_vars

\* C21: after a successful Agent.run the post-run steps come in this order:
\* usage is recorded, the run's new messages are appended to the context
\* manager, and compact() is called if and only if auto_compact is on and the
\* token count after the append is at least trigger_threshold_tokens; when the
\* underlying run raises, no usage is recorded and the context is unchanged.
C21_PostRunOrder ==
  [][ LET context == <<messages, system_prompt, compaction_history>>
          usage == <<usage_records, usage_totals>>
      IN agPc # "streaming" =>
         /\ usage' # usage =>
              /\ postRun = <<>>
              /\ usage_records'
                   = Append(usage_records, RecordOfUsage(run_result.usage))
              /\ context' = context
         /\ (messages' # messages
               /\ Len(compaction_history') = Len(compaction_history)) =>
              /\ postRun = <<"record_usage">>
              /\ messages'
                   = messages \o ModelMessagesToDicts(run_result.new_messages)
              /\ usage' = usage
         /\ agPc = "auto_compact" =>
              /\ postRun = <<"record_usage", "add_messages">>
              /\ Len(compaction_history') = Len(compaction_history) + 1
                   <=> /\ auto_compact
                       /\ TokenCount(messages, system_prompt)
                            >= trigger_threshold_tokens
              /\ Len(compaction_history') = Len(compaction_history)
                   => context' = context
              /\ usage' = usage
         /\ (agPc # "idle" /\ agPc' = "idle" /\ track_context) =>
              postRun' \in {<<"record_usage", "add_messages">>,
                            <<"record_usage", "add_messages", "compact">>}
         /\ (runs' # runs /\ agPc' = "idle") =>
              /\ usage' = usage
              /\ context' = context ]_vars

\* a run returned with the context exactly at the threshold and was compacted
C21_Witness ==
  /\ agPc = "idle"
  /\ postRun = <<"record_usage", "add_messages", "compact">>
  /\ compaction_history[Len(compaction_history)].tokens_before
       = trigger_threshold_tokens - system_prompt.tok
  /\ Len(usage_records) = runs

\* C22: in a streaming run no usage record is appended and no message is added
\* to the context before the stream has been fully consumed, and then exactly
\* one usage record is appended and the context is updated once.
C22_TrackedAfterStreamConsumed ==
  [][ (agPc = "streaming"
         /\ <<usage_records, usage_totals, messages, system_prompt>>'
              # <<usage_records, usage_totals, messages, system_prompt>>) =>
        /\ stream.left = 0
        /\ Len(usage_records') = Len(usage_records) + 1 ]_vars

\* C39: a completed streaming run adds to the context manager what run adds
\* for the same interaction, the messages new to the run.  run_stream adds
\* result.all_messages(), which begins with the history it passed in, so with
\* a non-empty history the earlier messages are appended again: this is
\* violated.
C39_StreamAddsNewMessagesOnly ==
  [][ (agPc = "streaming" /\ agPc' = "idle" /\ track_context
         /\ postRun' # postRun
         /\ Len(compaction_history') = Len(compaction_history)) =>
        messages' = messages \o ModelMessagesToDicts(run_result.new_messages)
    ]_vars

----------------------------------------------------------------------------
(*                   Properties of the MCPClientManager                    *)

\* C30: once the manager's use has ended, by the end of the context's body
\* (return or exception) or by the failure to start a server, no server is
\* tracked as running.  A failure of start_server in __aenter__ or connect_all
\* leaves the servers started before it in _servers with state RUNNING, so
\* this is violated.
C30_ReleasedOnEveryExit ==
  mcUse.exit \in {"body_ok", "body_raised", "start_failed"} =>
    /\ mcp_servers = {}
    /\ \A n \in DOMAIN mcp_states : mcp_states[n] # "running"

\* the state of the lifecycle manager a caller can read
Tracking == <<mcp_servers, mcp_states, mcp_errors>>

C36_ServerIffRunning ==
  mcUse.at = "lifecycle" =>
    \A name \in ServerNames :
      GetServer(name) <=> GetStatus(name).state = "running"

\* C37: get_status(name).error is set only while the state is error.
\* _errors is written by a failed start and never cleared, so after a later
\* successful start of the name the status is running with the old error:
\* this is violated.
C37_ErrorOnlyInErrorState ==
  mcUse.at = "lifecycle" =>
    \A name \in ServerNames :
      GetStatus(name).error => GetStatus(name).state = "error"

====
